------------------------------ MODULE FrontEnds ------------------------------
(***************************************************************************)
(* One request made through each front end: the command line (main.rs),    *)
(* the Python package (__init__.py over lib.rs) and the npm package        *)
(* (index.js over lib.rs).  Each checks the request in an order of its     *)
(* own, converts it and hands it to the same compiler, or to the worker of *)
(* a database handle, which any thread of the bindings may close.          *)
(***************************************************************************)
EXTENDS Integers, Sequences

CONSTANT Request   \* requests, as described below

FrontEnd == {"cli", "python", "node"}
Bindings == FrontEnd \ {"cli"}

\* op      "validate", "compile" or "schema" (dump)
\* target  what is validated or compiled: "shapes", "manifest", "both", "neither"
\* text    the manifest: "whole", "torn", of an "other version" or "foreign" dialect
\* names   whether dialect, label policy and document formats are known names
\* schema  the snapshot: "none", "text", "object" or a "broken object"
\* timeout "none", "positive", "not positive", or "not finite": NaN or an infinity
\* limit   as it is said: "omitted", "null", "zero", "few" or "negative"
RequestType ==
    [op : {"validate", "compile", "schema"},
     target : {"shapes", "manifest", "both", "neither"},
     text : {"whole", "torn", "other version", "foreign"},
     names : BOOLEAN,
     schema : {"none", "text", "object", "broken object"},
     timeout : {"none", "positive", "not positive", "not finite"},
     limit : {"omitted", "null", "zero", "few", "negative"}]

ASSUME FrontEndsAssumption == Request \subseteq RequestType

VARIABLES
    request,   \* what the user asks for
    world,     \* whether the database opens, the shapes compile, the queries answer
    at,        \* where each front end is
    handles,   \* the database handle of each binding
    outcome,   \* what the user gets from each front end: a kind, and the row limit
    asked      \* front ends that sent a query of a rule to the database

frontEndsVars == <<request, world, at, handles, outcome, asked>>

World == [opens : {"yes", "unavailable", "unreachable"}, compiles : BOOLEAN,
          answers : BOOLEAN, ladybug : BOOLEAN]

NoOutcome == [kind |-> "none", limit |-> 0]
All == 1000
DefaultLimit == 100
Few == 7

-----------------------------------------------------------------------------
(* Checks, in the order of the code: the first that fails names the error. *)

FirstError(checks) ==
    LET failed == {i \in DOMAIN checks : checks[i][1]}
    IN  IF failed = {}
        THEN "none"
        ELSE checks[CHOOSE i \in failed : \A j \in failed : i <= j][2]

NoTarget == request.target \in {"both", "neither"}
ByManifest == request.target = "manifest"
ByShapes == request.target = "shapes"
\* positive_timeout of session.rs.
Refused(timeout) == timeout \in {"not positive", "not finite"}
Unreadable == request.text \in {"torn", "other version"}
Opening(kind) == world.opens = kind
\* compile_for reads the snapshot of a LadybugDB database when none is given.
Dumps == world.ladybug /\ request.schema = "none"

\* The arguments that clap rejects before run_validate and run_compile.
CliArguments ==
    FirstError(<<
        <<request.op = "validate" /\ NoTarget, "argument">>,
        <<request.op = "validate" /\ request.limit = "negative", "argument">>,
        <<request.op # "schema" /\ ~ request.names, "argument">>>>)

\* run_validate before the first query of a rule.
CliValidate ==
    FirstError(<<
        <<Refused(request.timeout), "argument">>,
        <<Opening("unavailable"), "backend-unavailable">>,
        <<Opening("unreachable"), "connection">>,
        <<ByManifest /\ Unreadable, "manifest">>,
        <<ByShapes /\ Dumps /\ ~ world.answers, "database">>,
        <<ByShapes /\ request.schema = "broken object", "compile">>,
        <<ByShapes /\ ~ world.compiles, "compile">>,
        <<ByManifest /\ request.text = "foreign", "manifest">>>>)

CliDump ==
    FirstError(<<<<Opening("unavailable"), "backend-unavailable">>,
                 <<Opening("unreachable"), "connection">>,
                 <<~ world.answers, "database">>>>)

CliCompile ==
    FirstError(<<<<request.schema = "broken object", "compile">>,
                 <<~ world.compiles, "compile">>>>)

\* Database.validate and compile of __init__.py.
PythonWrapper ==
    FirstError(<<
        <<request.op = "validate" /\ NoTarget, "argument">>,
        <<request.op = "validate" /\ request.limit = "negative", "argument">>>>)

\* Mutant: the manifest's dialect is left to the worker, which does not compare it.
BindingManifestUnchecked ==
    FirstError(<<<<Unreadable, "manifest">>>>)

\* load the manifest and compare its dialect before the worker is asked.
BindingManifest ==
    FirstError(<<<<Unreadable, "manifest">>,
                 <<request.text = "foreign", "manifest">>>>)

\* prepare: names of dialect and labels, the snapshot, names of formats.
Prepare ==
    FirstError(<<<<~ request.names, "argument">>,
                 <<request.schema = "broken object", "compile">>>>)

\* Database.validate_manifest and validate_shapes, compile of the Python lib.rs.
PythonNative ==
    CASE request.op = "schema" -> "none"
      [] request.op = "compile" ->
            FirstError(<<<<Prepare # "none", Prepare>>, <<~ world.compiles, "compile">>>>)
      [] request.op = "validate" ->
            FirstError(<<
                <<Refused(request.timeout), "argument">>,
                <<ByManifest /\ BindingManifest # "none", BindingManifest>>,
                <<ByShapes /\ Prepare # "none", Prepare>>>>)

\* validate, compile and compileSync of index.js.
NodeWrapper ==
    FirstError(<<
        <<request.op = "validate" /\ NoTarget, "argument">>,
        <<request.op = "validate" /\ request.limit = "negative", "argument">>>>)

\* JSON text has no numbers that are not finite: JSON.stringify writes null.
TimeoutSent == IF request.timeout = "not finite" THEN "none" ELSE request.timeout

\* NativeDatabase::validate and run_compile of the Node lib.rs.
NodeNative ==
    CASE request.op = "schema" -> "none"
      [] request.op = "compile" ->
            FirstError(<<<<Prepare # "none", Prepare>>, <<~ world.compiles, "compile">>>>)
      [] request.op = "validate" ->
            FirstError(<<
                <<Refused(TimeoutSent), "argument">>,
                <<ByManifest /\ BindingManifest # "none", BindingManifest>>,
                <<ByShapes /\ Prepare # "none", Prepare>>>>)

-----------------------------------------------------------------------------
(* The limit of the detail rows.                                           *)

Said == CASE request.limit = "few" -> Few [] request.limit = "zero" -> 0 [] OTHER -> -1

\* args.limit > 0; clap gives 100 when it is omitted, and there is no null.
CliLimit == CASE Said = -1 -> IF request.limit = "null" THEN All ELSE DefaultLimit
              [] Said = 0 -> All
              [] OTHER -> Said

\* Mutant: None is taken for an omitted limit.
PythonLimitNoneOmitted ==
    CASE Said = -1 -> DefaultLimit [] Said = 0 -> All [] OTHER -> Said

\* limit.filter(> 0); the wrapper's default is 100, None lists everything.
PythonLimit ==
    CASE request.limit = "omitted" -> DefaultLimit
      [] request.limit = "null" \/ Said = 0 -> All
      [] OTHER -> Said

\* index.js turns null into 0, and lib.rs an absent limit into 100 and 0 into all.
NodeLimit ==
    LET sent == IF request.limit = "null" THEN 0 ELSE Said
    IN  CASE sent = -1 -> DefaultLimit [] sent = 0 -> All [] OTHER -> sent

Limit(f) == CASE f = "cli" -> CliLimit [] f = "python" -> PythonLimit [] f = "node" -> NodeLimit

-----------------------------------------------------------------------------
FrontEndsInit ==
    /\ request \in Request
    /\ world \in World
    /\ at = [f \in FrontEnd |-> "start"]
    /\ handles = [f \in Bindings |-> "unopened"]
    /\ outcome = [f \in FrontEnd |-> NoOutcome]
    /\ asked = {}

NeedsHandle == request.op # "compile"

\* The front end goes on to the next place, or ends with an error.
GoOn(f, error, next) ==
    IF error = "none"
    THEN at' = [at EXCEPT ![f] = next] /\ UNCHANGED outcome
    ELSE /\ at' = [at EXCEPT ![f] = "done"]
         /\ outcome' = [outcome EXCEPT ![f].kind = error]

OpenError ==
    FirstError(<<<<Opening("unavailable"), "backend-unavailable">>,
                 <<Opening("unreachable"), "connection">>>>)

\* open of the bindings: DatabaseWorker::open on another thread.
OpenHandle(f) ==
    /\ at[f] = "start"
    /\ NeedsHandle
    /\ handles[f] = "unopened"
    /\ GoOn(f, OpenError, "start")
    /\ handles' = [handles EXCEPT ![f] = IF OpenError = "none" THEN "open" ELSE "closed"]
    /\ UNCHANGED <<request, world, asked>>

\* Another thread, or the end of a with block, closes the handle.
Close(f) ==
    /\ handles[f] = "open"
    /\ handles' = [handles EXCEPT ![f] = "closed"]
    /\ UNCHANGED <<request, world, at, outcome, asked>>

Ready(f) == NeedsHandle => handles[f] # "unopened"

\* The call is checked in the language of the binding.
CallPython ==
    /\ at["python"] = "start"
    /\ Ready("python")
    /\ GoOn("python", PythonWrapper, "native")
    /\ UNCHANGED <<request, world, handles, asked>>

CallNode ==
    /\ at["node"] = "start"
    /\ Ready("node")
    /\ GoOn("node", NodeWrapper, "native")
    /\ UNCHANGED <<request, world, handles, asked>>

\* The call is checked and converted in Rust, and compiled there when that is all.
Native(f, error) ==
    /\ at[f] = "native"
    /\ IF request.op = "compile" /\ error = "none"
       THEN /\ at' = [at EXCEPT ![f] = "done"]
            /\ outcome' = [outcome EXCEPT ![f].kind = "compilation"]
       ELSE GoOn(f, error, "submit")
    /\ UNCHANGED <<request, world, handles, asked>>

NativePython == Native("python", PythonNative)
NativeNode == Native("node", NodeNative)

\* submit of worker.rs: a closed handle takes no job.
Submit(f) ==
    /\ at[f] = "submit"
    /\ GoOn(f, IF handles[f] = "closed" THEN "closed" ELSE "none", "queued")
    /\ UNCHANGED <<request, world, handles, asked>>

\* run and run_validate of worker.rs, which ask a database that answers or not.
WorkerError ==
    IF request.op = "schema"
    THEN FirstError(<<<<~ world.answers, "database">>>>)
    ELSE FirstError(<<<<ByShapes /\ Dumps /\ ~ world.answers, "database">>,
                      <<ByShapes /\ ~ world.compiles, "compile">>,
                      <<ByManifest /\ request.text = "foreign", "manifest">>>>)

Success == CASE request.op = "validate" -> "report"
             [] request.op = "schema" -> "snapshot"
             [] request.op = "compile" -> "compilation"

\* A report, a snapshot, or the error of the front end; asked counts queries of rules.
Finish(f, error) ==
    /\ at' = [at EXCEPT ![f] = "done"]
    /\ outcome' = [outcome EXCEPT ![f] =
          IF error # "none" THEN [NoOutcome EXCEPT !.kind = error]
          ELSE [kind |-> Success,
                limit |-> IF request.op = "validate" THEN Limit(f) ELSE 0]]
    /\ asked' = IF error = "none" /\ request.op = "validate" THEN asked \cup {f} ELSE asked
    /\ UNCHANGED <<request, world, handles>>

\* The worker takes the job; a job accepted before the close is still answered.
AnswerJob(f) == at[f] = "queued" /\ Finish(f, WorkerError)

ParseArguments ==
    /\ at["cli"] = "start"
    /\ GoOn("cli", CliArguments, "run")
    /\ UNCHANGED <<request, world, handles, asked>>

RunCommand ==
    /\ at["cli"] = "run"
    /\ Finish("cli", CASE request.op = "validate" -> CliValidate
                       [] request.op = "schema" -> CliDump
                       [] request.op = "compile" -> CliCompile)

FrontEndsNext ==
    \/ \E f \in Bindings : OpenHandle(f) \/ Close(f) \/ Submit(f) \/ AnswerJob(f)
    \/ CallPython \/ CallNode \/ NativePython \/ NativeNode
    \/ ParseArguments \/ RunCommand

FrontEndsSpec == FrontEndsInit /\ [][FrontEndsNext]_frontEndsVars

-----------------------------------------------------------------------------
(* Properties.                                                             *)

\* What is wrong with the request or the world, by the error that should tell.
Wrong ==
    {error \in {"argument", "manifest", "compile", "backend-unavailable", "connection", "database"} :
        \/ error = "argument" /\ request.op = "validate" /\ NoTarget
        \/ error = "argument" /\ request.op = "validate" /\ request.limit = "negative"
        \/ /\ error = "argument" /\ request.op = "validate"
           /\ request.timeout \notin {"none", "positive"}
        \/ error = "argument" /\ request.op # "schema" /\ ~ ByManifest /\ ~ request.names
        \/ error = "manifest" /\ request.op = "validate" /\ ByManifest /\ request.text # "whole"
        \/ /\ error = "compile" /\ request.op # "schema" /\ ByShapes
           /\ request.schema = "broken object" \/ ~ world.compiles
        \/ error = "backend-unavailable" /\ NeedsHandle /\ Opening("unavailable")
        \/ error = "connection" /\ NeedsHandle /\ Opening("unreachable")
        \/ error = "database" /\ request.op = "schema" /\ ~ world.answers
        \/ /\ error = "database" /\ request.op = "validate" /\ ByShapes
           /\ Dumps /\ ~ world.answers}

Done(f) == at[f] = "done" /\ outcome[f].kind # "closed"

\* "like `shacl2cypher validate`" (__init__.py:251, language-bindings/spec.md:98):
\* unless its handle was closed, each front end takes exactly the requests with
\* nothing wrong, lists the same number of violations, and when one thing is wrong
\* tells that by the same error.
FrontEndsAgree ==
    \A f \in FrontEnd : Done(f) =>
        /\ outcome[f].kind = Success <=> Wrong = {}
        /\ outcome[f].kind # Success => outcome[f].kind \in Wrong
        /\ \A g \in FrontEnd : Done(g) => outcome[f].limit = outcome[g].limit

\* No query of a rule is sent for a request with something wrong; a handle that is
\* closed meanwhile is told of only to callers whose arguments are right, and a
\* call that was accepted before the close is answered all the same.
ArgumentsComeFirst ==
    /\ asked # {} => Wrong = {}
    /\ \A f \in Bindings : outcome[f].kind = "closed" =>
          /\ handles[f] = "closed"
          /\ "argument" \notin Wrong /\ "manifest" \notin Wrong
=============================================================================
