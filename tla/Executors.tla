------------------------------ MODULE Executors ------------------------------
(***************************************************************************)
(* The three executors of the runner (neo4j.rs, falkordb.rs, ladybug.rs)   *)
(* behind the trait of executor.rs, and backend.rs that opens them: run    *)
(* with its parameters and its timeout, and the schema dump, whose queries *)
(* run like any other.  One client calls an executor, one call at a time;  *)
(* the server, its connections and its other clients are external.  The    *)
(* rows of an answer are known by the query they belong to and the graph   *)
(* they were read from.                                                    *)
(***************************************************************************)
EXTENDS Integers, Sequences, TLC

CONSTANTS Graphs,      \* per backend, the graphs a database may hold
          MaxCalls,    \* bound: calls
          MaxWrites    \* bound: changes other clients make

Backends == {"neo4j", "falkordb", "ladybug"}

ASSUME ExecutorsAssumption ==
    MaxCalls \in Nat /\ MaxWrites \in Nat /\ Backends \subseteq DOMAIN Graphs

\* A relationship joins nodes of its graph; a value is a list or it is not.
ASSUME GraphsAssumption ==
    \A b \in Backends : \A g \in Graphs[b] :
        /\ \A r \in g.rels : r.from \in DOMAIN g.nodes /\ r.to \in DOMAIN g.nodes
        /\ \A o \in {g.nodes[i] : i \in DOMAIN g.nodes} \cup g.rels :
              \A key \in DOMAIN o.props : o.props[key].list \in BOOLEAN

\* The numbers that a limit is compared with, in their order only.
Few == 1
I32Max == 2
U32Max == 3
I64Max == 4

\* writes: the text would change data; fault: why it cannot be run to its end;
\* bounded: a timeout is given; named: the text contains $limit.
Faults == {"none", "other", "names a timeout"}
Run == [kind : {"run"}, writes : BOOLEAN, fault : Faults, bounded : BOOLEAN,
        named : BOOLEAN, limit : {Few, I64Max}]
Probe == [kind |-> "probe", writes |-> FALSE, fault |-> "none", bounded |-> FALSE,
          named |-> FALSE, limit |-> Few]
Dump == [kind |-> "dump", writes |-> FALSE, fault |-> "none", bounded |-> FALSE,
         named |-> FALSE, limit |-> Few]

VARIABLES
    backend,    \* the backend that is configured
    available,  \* whether the build has that backend
    present,    \* whether the graph or the file that is configured exists
    db,         \* the graph that the database holds now
    writes,     \* changes made by other clients so far
    pc,         \* where the executor is
    call,       \* the current or last call
    calls,      \* calls so far
    number,     \* queries so far
    todo,       \* queries of the schema dump that are left
    seen,       \* graphs the database held since the call began
    leftover,   \* rows that wait unread on a connection of the pool
    rows,       \* rows that the query has received
    snapshot,   \* the schema dump so far
    answer,     \* what the last call returned
    cut,        \* whether a connection failed during the call
    kept        \* whether the pool was kept after a connection was abandoned mid-stream

config == <<backend, available, present>>
world == <<db, writes, seen>>
request == <<call, calls>>
dump == <<todo, snapshot, number>>
vars == <<config, world, request, dump, pc, leftover, rows, answer, cut, kept>>

NoGraph == [nodes |-> <<>>, rels |-> {}]
NoRows == [query |-> 0, of |-> NoGraph, whole |-> TRUE]
RowsRead == [query |-> number, of |-> db, whole |-> TRUE]
Empty == [nodes |-> <<>>, rels |-> <<>>]

-----------------------------------------------------------------------------
(* Schema dumps.  A value is a scalar of a type, or a list of elements.    *)

None == <<>>
AnyType == [list |-> FALSE, of |-> "ANY"]

\* The types that the snapshot has for what a server reports.
Neo4jTypes ==
    [String |-> "STRING", Long |-> "INT64", Double |-> "DOUBLE", Boolean |-> "BOOLEAN",
     Date |-> "DATE", LocalDateTime |-> "LOCAL_DATETIME", DateTime |-> "ZONED_DATETIME",
     LocalTime |-> "LOCAL_TIME", Time |-> "ZONED_TIME", Duration |-> "DURATION",
     Point |-> "POINT", ByteArray |-> "BLOB"]

FalkorDbTypes ==
    [String |-> "STRING", Integer |-> "INT64", Float |-> "DOUBLE", Boolean |-> "BOOLEAN",
     Date |-> "DATE", Datetime |-> "LOCAL_DATETIME", Time |-> "LOCAL_TIME",
     Duration |-> "DURATION", Point |-> "POINT"]

LadybugTypes ==
    [name \in {"STRING", "INT64", "INT32", "INT16", "INT8", "UINT64", "UINT32", "UINT16",
               "UINT8", "DOUBLE", "FLOAT", "DECIMAL", "BOOLEAN", "DATE", "BLOB"} |-> name]
    @@ [SERIAL |-> "INT64", BOOL |-> "BOOLEAN", TIMESTAMP |-> "LOCAL_DATETIME",
        TIMESTAMP_NS |-> "LOCAL_DATETIME", TIMESTAMP_TZ |-> "ZONED_DATETIME",
        INTERVAL |-> "DURATION"]

Neutral == [neo4j |-> Neo4jTypes, falkordb |-> FalkorDbTypes, ladybug |-> LadybugTypes]

TypeNamed(b, name) ==
    IF name \in DOMAIN Neutral[b] THEN Neutral[b][name] ELSE "ANY"

Single(S) == \E x \in S : S = {x}

\* Mutant: the type of one value is taken for that of all.
FirstType(b, values) ==
    LET value == CHOOSE v \in values : TRUE IN
    [list |-> value.list, of |-> IF Single(value.of)
                                 THEN TypeNamed(b, CHOOSE t \in value.of : TRUE) ELSE "ANY"]

\* What several observed values of a property have in common: lists of one type of
\* element, or scalars of one type; ANY otherwise.
CommonType(b, values) ==
    LET elements == UNION {v.of : v \in values}
        only == IF Single(elements)
                THEN TypeNamed(b, CHOOSE t \in elements : TRUE) ELSE "ANY" IN
    IF ~ Single({v.list : v \in values}) THEN AnyType
    ELSE [list |-> \E v \in values : v.list, of |-> only]

\* Neo4j reports per combination of labels: a type of each, merged by label.
Merged(types) == IF Single(types) THEN CHOOSE t \in types : TRUE ELSE AnyType

Columns(b, owners) ==
    [key \in UNION {DOMAIN o.props : o \in owners} |->
        LET Holding(group) == {o.props[key] : o \in {p \in group : key \in DOMAIN p.props}}
            groups == {{o \in owners : o.kind = kind} : kind \in {o.kind : o \in owners}} IN
        IF b = "neo4j"
        THEN Merged({CommonType(b, Holding(g)) : g \in {h \in groups : Holding(h) # {}}})
        ELSE CommonType(b, Holding(owners))]

\* Nodes with the label, and relationships with the type, as owners of properties.
NodesWith(g, label) ==
    {[kind |-> n.labels, props |-> n.props] :
        n \in {g.nodes[i] : i \in {j \in DOMAIN g.nodes : label \in g.nodes[j].labels}}}
RelsWith(g, type) ==
    {[kind |-> r.type, props |-> r.props] : r \in {s \in g.rels : s.type = type}}

LabelsOf(g) == UNION {g.nodes[i].labels : i \in DOMAIN g.nodes}
TypesOf(g) == {r.type : r \in g.rels}
EndpointsOf(g, type) ==
    UNION {g.nodes[r.from].labels \X g.nodes[r.to].labels : r \in {s \in g.rels : s.type = type}}

\* What is known so far, and where it is silent what the query adds.
Extended(known, keys, Value(_)) ==
    [k \in DOMAIN known \cup keys |-> IF k \in keys THEN Value(k) ELSE known[k]]
Named(known, keys) ==
    [k \in DOMAIN known \cup keys |-> IF k \in DOMAIN known THEN known[k] ELSE None]

\* Labels and types without a property are in no row of the property queries, except
\* those of Neo4j, which has a row without a property for them.
Owning(b, names, Of(_)) ==
    {n \in names : b = "neo4j" \/ \E o \in Of(n) : DOMAIN o.props # {}}

Neo4jDump ==
    <<"labels", "node properties", "types", "type properties", "endpoints">>
FalkorDbDump ==
    <<"node properties", "labels", "type properties", "types", "endpoints">>
LadybugDump ==
    <<"tables", "node properties", "type properties", "endpoints">>

\* Neo4j's scans of endpoints, one per type, are one query: properties relate no types.
DumpQueries == [neo4j |-> Neo4jDump, falkordb |-> FalkorDbDump, ladybug |-> LadybugDump]

\* What the rows of a query add to the nodes of the snapshot, and to its relationships.
NodesAfter(query, g) ==
    LET Of(l) == NodesWith(g, l)
        Type(l) == Columns(backend, NodesWith(g, l)) IN
    CASE query \in {"tables", "labels"} -> Named(snapshot.nodes, LabelsOf(g))
      [] query = "node properties" ->
            Extended(snapshot.nodes, Owning(backend, LabelsOf(g), Of), Type)
      [] OTHER -> snapshot.nodes

RelsAfter(query, g) ==
    LET Of(t) == RelsWith(g, t)
        Type(t) == [properties |-> Columns(backend, RelsWith(g, t)), endpoints |-> {}]
        Scanned(t) == [snapshot.rels[t] EXCEPT !.endpoints = EndpointsOf(g, t)] IN
    CASE query \in {"tables", "types"} ->
            [t \in DOMAIN snapshot.rels \cup TypesOf(g) |->
                IF t \in DOMAIN snapshot.rels THEN snapshot.rels[t]
                ELSE [properties |-> None, endpoints |-> {}]]
      [] query = "type properties" ->
            Extended(snapshot.rels, Owning(backend, TypesOf(g), Of), Type)
      [] query = "endpoints" -> Extended(snapshot.rels, DOMAIN snapshot.rels, Scanned)
      [] OTHER -> snapshot.rels

\* The snapshot after the rows of the dump's next query.  The rows of a query that
\* the dump did not send have none of its columns.
Collected ==
    IF rows.query # number THEN snapshot
    ELSE [nodes |-> NodesAfter(Head(todo), rows.of), rels |-> RelsAfter(Head(todo), rows.of)]

\* Mutant: types whose relationships are gone when they are scanned are kept.
FinishedWithAll(s) == s

\* Types without an endpoint are left out of the snapshot that is returned.
Finished(s) ==
    LET declared == {t \in DOMAIN s.rels : s.rels[t].endpoints # {}} IN
    [s EXCEPT !.rels = [t \in declared |-> s.rels[t]]]

\* schema.rs: from_json accepts a snapshot whose endpoints are node types of it.
Accepts(s) ==
    \A t \in DOMAIN s.rels :
        /\ s.rels[t].endpoints # {}
        /\ \A e \in s.rels[t].endpoints : {e[1], e[2]} \subseteq DOMAIN s.nodes

-----------------------------------------------------------------------------
(* Calls, and the other clients.                                           *)

Init ==
    /\ backend \in Backends /\ available \in BOOLEAN /\ present \in BOOLEAN
    /\ db \in Graphs[backend] /\ seen = {db} /\ writes = 0
    /\ pc = "open" /\ call = Probe /\ calls = 0 /\ number = 1
    /\ todo = <<>> /\ snapshot = Empty
    /\ leftover = NoRows /\ rows = NoRows /\ cut = FALSE /\ kept = FALSE
    /\ answer = [kind |-> "none", rows |-> NoRows, snapshot |-> Empty]

Return(kind) ==
    /\ pc' = IF call.kind = "probe" /\ kind # "rows" THEN "closed" ELSE "idle"
    /\ answer' = [kind |-> IF call.kind = "probe" /\ kind \notin {"rows", "unavailable"}
                           THEN "connection" ELSE kind,
                  rows |-> IF kind = "rows" THEN rows ELSE NoRows,
                  snapshot |-> Empty]

\* backend::open; Neo4j is asked RETURN 1, the others whether the graph or file exists.
Open ==
    /\ pc = "open"
    /\ CASE ~ available -> Return("unavailable") /\ UNCHANGED cut
         [] available /\ backend = "neo4j" -> pc' = "start" /\ UNCHANGED <<answer, cut>>
         [] OTHER -> \/ present /\ Return("rows") /\ UNCHANGED cut
                     \/ ~ present /\ Return("connection") /\ UNCHANGED cut
                     \/ Return("connection") /\ cut' = TRUE
    /\ UNCHANGED <<config, world, request, dump, leftover, rows, kept>>

Begin(c) ==
    /\ pc = "idle" /\ calls < MaxCalls
    /\ pc' = "start"
    /\ call' = c
    /\ calls' = calls + 1 /\ number' = number + 1
    /\ seen' = {db}
    /\ todo' = IF c.kind = "dump" THEN DumpQueries[backend] ELSE <<>>
    /\ snapshot' = Empty /\ rows' = NoRows /\ cut' = FALSE
    /\ UNCHANGED <<config, db, writes, leftover, answer, kept>>

\* Executor::run and Executor::schema.
CallRun == \E c \in Run : Begin(c)
CallSchema == Begin(Dump)

\* Another client changes the data; a file opened read-only has no writers.
OthersWrite ==
    /\ writes < MaxWrites
    /\ pc # "closed" /\ backend # "ladybug"
    /\ writes' = writes + 1
    /\ \E g \in Graphs[backend] \ {db} : db' = g /\ seen' = seen \cup {g}
    /\ UNCHANGED <<config, request, dump, pc, leftover, rows, answer, cut, kept>>

\* The rows of a query are in: they are the answer, or the dump goes on with them.
Deliver ==
    IF call.kind # "dump" THEN Return("rows") /\ UNCHANGED dump
    ELSE /\ snapshot' = Collected
         /\ todo' = Tail(todo)
         /\ number' = number + 1
         /\ IF todo' = <<>>
            THEN /\ pc' = "idle"
                 /\ answer' = [kind |-> "schema", rows |-> NoRows,
                               snapshot |-> Finished(snapshot')]
            ELSE pc' = "start" /\ UNCHANGED answer

-----------------------------------------------------------------------------
(* Neo4j: an explicit transaction per query, rolled back.                  *)

InTransaction == {"start", "execute", "stream", "rollback"}

\* start_txn takes a connection of the pool, or makes one.
StartTxn ==
    /\ backend = "neo4j" /\ pc = "start"
    /\ \/ pc' = "execute" /\ UNCHANGED <<answer, cut>>
       \/ Return("connection") /\ cut' = TRUE
    /\ UNCHANGED <<config, world, request, dump, leftover, rows, kept>>

\* The server answers; a connection abandoned mid-stream yields its old rows first.
Execute ==
    /\ backend = "neo4j" /\ pc = "execute"
    /\ \/ /\ rows' = IF leftover = NoRows THEN RowsRead ELSE leftover
          /\ leftover' = NoRows
          /\ pc' = "stream"
          /\ UNCHANGED <<answer, cut>>
       \/ call.fault # "none" /\ Return("query") /\ UNCHANGED <<rows, leftover, cut>>
       \/ Return("query") /\ cut' = TRUE /\ UNCHANGED <<rows, leftover>>
    /\ UNCHANGED <<config, world, request, dump, kept>>

\* The last row is read, or a row fails: then no rollback is sent, the server discards
\* the transaction, and the pool is kept, on which the other rows may wait.
Stream ==
    /\ backend = "neo4j" /\ pc = "stream"
    /\ \/ call.fault = "none" /\ pc' = "rollback" /\ UNCHANGED <<answer, cut, leftover, kept>>
       \/ /\ call.fault # "none" /\ Return("query") /\ UNCHANGED cut
          /\ UNCHANGED <<leftover, kept>> \/ (leftover' = rows /\ kept' = TRUE)
       \/ Return("query") /\ cut' = TRUE /\ UNCHANGED <<leftover, kept>>
    /\ UNCHANGED <<config, world, request, dump, rows>>

Rollback ==
    /\ backend = "neo4j" /\ pc = "rollback"
    /\ \/ Deliver /\ UNCHANGED cut
       \/ Return("connection") /\ cut' = TRUE /\ UNCHANGED dump
    /\ UNCHANGED <<config, world, request, leftover, rows, kept>>

\* Mutant: after a timeout the executor goes on with the pool it has.
TimeoutKeepsPool ==
    /\ backend = "neo4j" /\ call.bounded /\ pc \in InTransaction
    /\ leftover' \in {leftover} \cup IF pc = "stream" THEN {rows} ELSE {}
    /\ Return("timeout")
    /\ UNCHANGED <<config, world, request, dump, rows, cut, kept>>

\* Mutant: the timer runs only once a transaction has started.
TimeoutOfQuery ==
    /\ backend = "neo4j" /\ call.bounded /\ pc \in InTransaction \ {"start"}
    /\ leftover' \in {leftover} \cup IF pc = "stream" THEN {rows} ELSE {}
    /\ pc' = "reopen"
    /\ UNCHANGED <<config, world, request, dump, rows, answer, cut, kept>>

\* The client's timer: the work is dropped wherever it is, perhaps mid-stream.
Timeout ==
    /\ backend = "neo4j" /\ call.bounded /\ pc \in InTransaction
    /\ leftover' \in {leftover} \cup IF pc = "stream" THEN {rows} ELSE {}
    /\ pc' = "reopen"
    /\ UNCHANGED <<config, world, request, dump, rows, answer, cut, kept>>

\* open makes another pool; when it fails its error replaces the timeout, and the
\* executor keeps the pool it has.
Reopen ==
    /\ backend = "neo4j" /\ pc = "reopen"
    /\ \/ leftover' = NoRows /\ kept' = FALSE /\ Return("timeout") /\ UNCHANGED cut
       \/ Return("connection") /\ cut' = TRUE /\ kept' = TRUE /\ UNCHANGED leftover
    /\ UNCHANGED <<config, world, request, dump, rows>>

-----------------------------------------------------------------------------
(* FalkorDB: GRAPH.RO_QUERY with a timeout that the server keeps.          *)

CappedLimit == IF call.limit < I32Max THEN call.limit ELSE I32Max

\* Mutant: without a timeout the server's own default applies.
ServerDefaultTimeout == TRUE

ServerMayTimeOut == call.bounded

FalkorDbError(fault) ==
    CASE fault = "timed out" -> "timeout"
      [] fault = "connection down" -> "connection"
      [] OTHER -> "query"

\* The server reads the graph or refuses to; some limits yield no rows at all.
ReadOnlyQuery ==
    /\ backend = "falkordb" /\ pc = "start"
    /\ \/ /\ call.fault = "none" /\ ~ call.writes
          /\ rows' \in {RowsRead} \cup
                IF CappedLimit > U32Max THEN {[RowsRead EXCEPT !.whole = FALSE]} ELSE {}
          /\ pc' = "reply"
          /\ UNCHANGED <<answer, cut>>
       \/ /\ call.fault # "none" \/ call.writes
          /\ Return(FalkorDbError(call.fault))
          /\ UNCHANGED <<rows, cut>>
       \/ ServerMayTimeOut /\ Return(FalkorDbError("timed out")) /\ UNCHANGED <<rows, cut>>
       \/ \E fault \in {"connection down", "other"} :
            Return(FalkorDbError(fault)) /\ cut' = TRUE /\ UNCHANGED rows
    /\ UNCHANGED <<config, world, request, dump, leftover, kept>>

ReadReply ==
    /\ backend = "falkordb" /\ pc = "reply"
    /\ Deliver
    /\ UNCHANGED <<config, world, request, leftover, rows, cut, kept>>

-----------------------------------------------------------------------------
(* LadybugDB: a connection per query on a database opened read-only.       *)

BoundParameters == IF call.named THEN {"limit"} ELSE {}

LadybugError(fault) == IF fault \in {"interrupted", "names a timeout"} THEN "timeout" ELSE "query"

\* Prepared statements reject parameters that the query does not declare.
Prepared == call.fault = "none" /\ ~ call.writes /\ (call.named <=> BoundParameters # {})

QueryLadybug ==
    /\ backend = "ladybug" /\ pc = "start"
    /\ \/ Prepared /\ rows' = RowsRead /\ pc' = "reply" /\ UNCHANGED <<answer, cut>>
       \/ ~ Prepared /\ Return(LadybugError(call.fault)) /\ UNCHANGED <<rows, cut>>
       \/ call.bounded /\ Return(LadybugError("interrupted")) /\ UNCHANGED <<rows, cut>>
       \/ Return("connection") /\ cut' = TRUE /\ UNCHANGED rows
    /\ UNCHANGED <<config, world, request, dump, leftover, kept>>

ReadResult ==
    /\ backend = "ladybug" /\ pc = "reply"
    /\ Deliver
    /\ UNCHANGED <<config, world, request, leftover, rows, cut, kept>>

-----------------------------------------------------------------------------
Next ==
    \/ Open \/ CallRun \/ CallSchema \/ OthersWrite
    \/ StartTxn \/ Execute \/ Stream \/ Rollback \/ Timeout \/ Reopen
    \/ ReadOnlyQuery \/ ReadReply
    \/ QueryLadybug \/ ReadResult

\* Timer and reconnection are the client's own; no server and no network need answer.
Fairness == WF_vars(Timeout) /\ WF_vars(Reopen)

Spec == Init /\ [][Next]_vars /\ Fairness

-----------------------------------------------------------------------------
(* Properties.                                                             *)

\* The rows that a call returns are all the rows of its own query, read from a graph that
\* the database held during the call: not rows that an earlier call left unread, and not
\* the rows a limit has lost.  A timeout replaces the pool whose connection it abandons
\* mid-stream.  Where that fails, and after a row that fails, which replaces nothing, the
\* pool is kept and its next user may meet the old rows.
AnswersAreOwn ==
    pc = "idle" /\ answer.kind = "rows" /\ call.kind = "run" /\ ~ kept =>
        answer.rows.query = number /\ answer.rows.of \in seen /\ answer.rows.whole

\* An error says what happened: a timeout only when one was given (or when LadybugDB
\* complains of something that is called timeout), a failed query only when the text is
\* at fault or the connection broke in the middle of it, an unavailable backend only when
\* the build lacks it.
ErrorsAreTrue ==
    pc \in {"idle", "closed"} =>
        /\ answer.kind = "timeout" =>
                call.bounded \/ (backend = "ladybug" /\ call.fault = "names a timeout")
        /\ answer.kind = "query" => call.fault # "none" \/ cut \/ (backend # "neo4j" /\ call.writes)
        /\ answer.kind = "connection" => cut \/ ~ present
        /\ answer.kind = "unavailable" <=> ~ available

\* Other clients may write between the queries of a schema dump.  The snapshot describes
\* what the graph held all the time: its labels, its types that had endpoints, and every
\* value of a node or relationship that stayed.  It describes nothing else: each of its
\* labels was there at some time with the columns it has (or without any, before they
\* were read), each of its types with the endpoints it has.  compile --schema accepts it
\* at least when no label has come or gone.
Fits(b, value, column) ==
    \/ column = AnyType
    \/ /\ column.list = value.list
       /\ column.of = "ANY" \/ {TypeNamed(b, t) : t \in value.of} \subseteq {column.of}

Stayed(Of(_)) == {x \in Of(db) : \A g \in seen : x \in Of(g)}

DescribesNodes(s) ==
    /\ Stayed(LabelsOf) \subseteq DOMAIN s.nodes
    /\ \A l \in DOMAIN s.nodes :
          LET With(g) == NodesWith(g, l) IN
          /\ \E g \in seen : l \in LabelsOf(g) /\ s.nodes[l] \in {None, Columns(backend, With(g))}
          /\ \A o \in Stayed(With) : \A key \in DOMAIN o.props :
                key \in DOMAIN s.nodes[l] /\ Fits(backend, o.props[key], s.nodes[l][key])

DescribesRels(s) ==
    LET Joining(g) == {t \in TypesOf(g) : EndpointsOf(g, t) # {}} IN
    /\ Stayed(Joining) \subseteq DOMAIN s.rels
    /\ \A t \in DOMAIN s.rels :
          LET With(g) == RelsWith(g, t) IN
          /\ \E g \in seen : t \in Joining(g) /\ s.rels[t].endpoints = EndpointsOf(g, t)
          /\ \A o \in Stayed(With) : \A key \in DOMAIN o.props :
                key \in DOMAIN s.rels[t].properties
                /\ Fits(backend, o.props[key], s.rels[t].properties[key])

DumpsDescribeWhatStays ==
    answer.kind = "schema" /\ pc = "idle" =>
        /\ DescribesNodes(answer.snapshot)
        /\ DescribesRels(answer.snapshot)
        /\ (\A g \in seen : LabelsOf(g) = LabelsOf(db)) => Accepts(answer.snapshot)

\* A Neo4j call with a timeout returns, whatever server and network do.
BoundedCallsReturn ==
    backend = "neo4j" /\ call.bounded /\ pc # "idle" ~> pc = "idle"
=============================================================================
