--------------------------- MODULE Executors_proofs ---------------------------
(***************************************************************************)
(* What a call on any of the three executors promises, for any graphs, any *)
(* number of calls and writers, and whatever fails: rows of its own query, *)
(* true errors, and dumps that describe what the graph held all the time.  *)
(***************************************************************************)
EXTENDS Executors, TLAPS

Kinds == {"none", "rows", "schema", "timeout", "query", "connection", "unavailable"}

\* The program counter, the call, the answer and the counters.
TypeOK ==
    /\ backend \in Backends /\ available \in BOOLEAN /\ present \in BOOLEAN
    /\ pc \in {"open", "start", "execute", "stream", "rollback", "reopen", "reply",
               "idle", "closed"}
    /\ call \in Run \cup {Probe, Dump}
    /\ answer.kind \in Kinds
    /\ writes \in Nat
    /\ cut \in BOOLEAN /\ kept \in BOOLEAN

OwnRows(r) == r.query = number /\ r.of \in seen /\ r.whole

\* Rows wait on a connection only between a timeout and the pool that replaces it, or
\* where the pool was kept; rows that were received are those of the query that runs.
RowsInv ==
    /\ db \in seen
    /\ ~ kept /\ pc # "reopen" => leftover = NoRows
    /\ ~ kept /\ pc \in {"stream", "rollback", "reply"} => OwnRows(rows)

\* What is known of errors before a call returns: only a backend that the build has
\* goes beyond its opening, and only a call with a timeout is reopened.
ErrorInv ==
    /\ pc = "reopen" => backend = "neo4j" /\ call.bounded
    /\ pc \in {"execute", "stream", "rollback"} => backend = "neo4j"
    /\ pc = "open" => answer.kind = "none" /\ call = Probe
    /\ pc \notin {"open", "closed"} => available
    /\ available => answer.kind # "unavailable"

\* The inductive invariant.
IInv == TypeOK /\ RowsInv /\ ErrorInv /\ AnswersAreOwn /\ ErrorsAreTrue

-----------------------------------------------------------------------------
LEMMA CallFacts ==
  ASSUME call \in Run \cup {Probe, Dump}
  PROVE  /\ call.kind \in {"run", "probe", "dump"}
         /\ call.kind = "probe" => call.fault = "none" /\ call.writes = FALSE /\ call.bounded = FALSE
         /\ call.fault \in Faults
         /\ call.bounded \in BOOLEAN /\ call.writes \in BOOLEAN /\ call.named \in BOOLEAN
         /\ call.limit \in {Few, I64Max}
<1>1. CASE call \in Run
  BY <1>1 DEF Run
<1>2. CASE call = Probe
  BY <1>2 DEF Probe, Faults
<1>3. CASE call = Dump
  BY <1>3 DEF Dump, Faults
<1> QED
  BY <1>1, <1>2, <1>3

\* What a call may return with, besides rows.
ErrorIsTrue(kind) ==
    /\ kind = "timeout" =>
          call.bounded \/ (backend = "ladybug" /\ call.fault = "names a timeout")
    /\ kind = "query" =>
          call.fault # "none" \/ cut' \/ (backend # "neo4j" /\ call.writes)
    /\ kind = "connection" => cut' \/ ~ present
    /\ kind = "unavailable" => ~ available

\* A return keeps the invariant when its rows are its own and its error is true.
LEMMA ReturnInv ==
  ASSUME IInv, NEW kind \in Kinds \ {"none", "schema"}, Return(kind),
         UNCHANGED <<config, world, request, number>>,
         ErrorIsTrue(kind),
         pc = "open" \/ (kind # "unavailable" /\ available),
         pc = "open" => (kind = "unavailable" <=> ~ available),
         call.kind = "probe" /\ kind \in {"timeout", "query"} => cut',
         kind = "rows" /\ call.kind = "run" /\ ~ kept' => OwnRows(rows),
         cut' \in BOOLEAN, kept' \in BOOLEAN,
         ~ kept' => leftover' = NoRows
  PROVE  IInv'
<1> DEFINE told == IF call.kind = "probe" /\ kind \notin {"rows", "unavailable"}
                   THEN "connection" ELSE kind
<1>1. /\ answer'.kind = told
      /\ kind = "rows" => answer'.rows = rows
      /\ pc' \in {"idle", "closed"}
      /\ call' = call /\ backend' = backend /\ available' = available /\ present' = present
      /\ db' = db /\ seen' = seen /\ number' = number /\ writes' = writes
  BY DEF Return, config, world, request
<1>2. told \in Kinds
  BY DEF Kinds
<1>3. TypeOK'
  BY <1>1, <1>2 DEF IInv, TypeOK
<1>4. RowsInv'
  BY <1>1 DEF IInv, RowsInv
<1>5. pc' = "idle" => available
  <2>1. CASE pc = "open" /\ ~ available
    <3>1. call.kind = "probe" /\ kind # "rows"
      BY <2>1 DEF IInv, ErrorInv, Probe
    <3> QED
      BY <3>1 DEF Return
  <2> QED
    BY <2>1 DEF IInv, TypeOK
<1>6. ErrorInv'
  BY <1>1, <1>5 DEF ErrorInv
<1>7. AnswersAreOwn'
  BY <1>1 DEF AnswersAreOwn, OwnRows
<1>8. ErrorsAreTrue'
  <2>1. answer'.kind = "timeout" =>
          call'.bounded \/ (backend' = "ladybug" /\ call'.fault = "names a timeout")
    BY <1>1 DEF ErrorIsTrue
  <2>2. answer'.kind = "query" =>
          call'.fault # "none" \/ cut' \/ (backend' # "neo4j" /\ call'.writes)
    BY <1>1 DEF ErrorIsTrue
  <2>3. answer'.kind = "connection" => cut' \/ ~ present'
    BY <1>1 DEF ErrorIsTrue, Kinds
  <2>4. answer'.kind = "unavailable" <=> ~ available'
    BY <1>1 DEF ErrorIsTrue, IInv, TypeOK
  <2> QED
    BY <2>1, <2>2, <2>3, <2>4 DEF ErrorsAreTrue
<1> QED
  BY <1>3, <1>4, <1>6, <1>7, <1>8 DEF IInv

\* A step that ends no call keeps the invariant when its rows are its own.
LEMMA GoOn ==
  ASSUME IInv,
         UNCHANGED <<config, writes, request, number, answer, cut, kept>>,
         pc \notin {"open", "idle", "closed"} /\ available,
         pc' \in {"start", "execute", "stream", "rollback", "reopen", "reply"},
         pc' = "reopen" => backend = "neo4j" /\ call.bounded,
         pc' \in {"execute", "stream", "rollback"} => backend = "neo4j",
         db' \in seen',
         ~ kept /\ pc' # "reopen" => leftover' = NoRows,
         ~ kept /\ pc' \in {"stream", "rollback", "reply"} => OwnRows(rows)'
  PROVE  IInv'
<1>1. TypeOK'
  BY DEF IInv, TypeOK, config, request
<1>2. RowsInv'
  BY DEF RowsInv
<1>3. ErrorInv'
  BY DEF IInv, ErrorInv, config, request
<1>4. AnswersAreOwn' /\ ErrorsAreTrue'
  BY DEF AnswersAreOwn, ErrorsAreTrue
<1> QED
  BY <1>1, <1>2, <1>3, <1>4 DEF IInv

\* The rows of a query are handed over: to the caller, or to the dump.
LEMMA DeliverInv ==
  ASSUME IInv, Deliver, pc \in {"rollback", "reply"},
         UNCHANGED <<config, world, request, leftover, rows, cut, kept>>
  PROVE  IInv'
<1>1. available /\ (~ kept => leftover = NoRows /\ OwnRows(rows))
  BY DEF IInv, ErrorInv, RowsInv
<1>2. CASE call.kind # "dump"
  <2>1. Return("rows") /\ number' = number
    BY <1>2 DEF Deliver, dump
  <2>2. cut' \in BOOLEAN /\ kept' \in BOOLEAN
    BY DEF IInv, TypeOK
  <2>3. "rows" \in Kinds \ {"none", "schema"}
    BY DEF Kinds
  <2> QED
    BY <1>1, <2>1, <2>2, <2>3, ReturnInv DEF ErrorIsTrue
<1>3. CASE call.kind = "dump"
  <2>1. \/ pc' = "idle" /\ answer'.kind = "schema"
        \/ pc' = "start" /\ answer' = answer
    BY <1>3 DEF Deliver
  <2>2. TypeOK'
    BY <2>1 DEF IInv, TypeOK, Kinds, config, world, request
  <2>3. RowsInv'
    BY <1>1, <2>1 DEF IInv, RowsInv, world
  <2>4. ErrorInv'
    BY <1>1, <2>1 DEF IInv, ErrorInv, config
  <2>5. AnswersAreOwn'
    BY <2>1 DEF AnswersAreOwn
  <2>6. ErrorsAreTrue'
    BY <1>1, <2>1 DEF ErrorsAreTrue, config
  <2> QED
    BY <2>2, <2>3, <2>4, <2>5, <2>6 DEF IInv
<1> QED
  BY <1>2, <1>3

-----------------------------------------------------------------------------
(* One lemma per backend.                                                  *)

LEMMA InitInv == ASSUME Init PROVE IInv
<1>1. TypeOK
  BY DEF Init, TypeOK, Kinds
<1>2. RowsInv /\ ErrorInv /\ AnswersAreOwn /\ ErrorsAreTrue
  BY DEF Init, RowsInv, ErrorInv, AnswersAreOwn, ErrorsAreTrue
<1> QED
  BY <1>1, <1>2 DEF IInv

LEMMA OpenInv == ASSUME IInv, Open PROVE IInv'
<1>1. /\ pc = "open" /\ call = Probe /\ call.kind = "probe"
      /\ ~ kept => leftover = NoRows
      /\ UNCHANGED <<config, world, request, number, leftover, rows, kept>>
  BY DEF Open, IInv, ErrorInv, RowsInv, Probe, dump
<1>2. available \in BOOLEAN /\ present \in BOOLEAN /\ kept \in BOOLEAN /\ cut \in BOOLEAN
  BY DEF IInv, TypeOK
<1>3. CASE Return("unavailable") /\ ~ available /\ UNCHANGED cut
  <2>1. "unavailable" \in Kinds \ {"none", "schema"}
    BY DEF Kinds
  <2> QED
    BY <1>1, <1>2, <1>3, <2>1, ReturnInv DEF ErrorIsTrue
<1>4. CASE available /\ Return("rows") /\ UNCHANGED cut
  <2>1. "rows" \in Kinds \ {"none", "schema"}
    BY DEF Kinds
  <2> QED
    BY <1>1, <1>2, <1>4, <2>1, ReturnInv DEF ErrorIsTrue
<1>5. CASE available /\ Return("connection") /\ cut' \in BOOLEAN /\ (cut' \/ ~ present)
  <2>1. "connection" \in Kinds \ {"none", "schema"}
    BY DEF Kinds
  <2> QED
    BY <1>1, <1>2, <1>5, <2>1, ReturnInv DEF ErrorIsTrue
<1>6. CASE available /\ backend = "neo4j" /\ pc' = "start" /\ UNCHANGED <<answer, cut>>
  <2>1. TypeOK'
    BY <1>1, <1>6 DEF IInv, TypeOK, config, world, request
  <2>2. RowsInv'
    BY <1>1, <1>6 DEF IInv, RowsInv, world
  <2>3. ErrorInv' /\ AnswersAreOwn' /\ ErrorsAreTrue'
    BY <1>1, <1>6 DEF IInv, ErrorInv, AnswersAreOwn, ErrorsAreTrue, config
  <2> QED
    BY <2>1, <2>2, <2>3 DEF IInv
<1> QED
  BY <1>2, <1>3, <1>4, <1>5, <1>6 DEF Open

LEMMA BeginInv == ASSUME IInv, CallRun \/ CallSchema PROVE IInv'
<1>1. PICK c \in Run \cup {Dump} : Begin(c)
  BY DEF CallRun, CallSchema
<1>2. /\ pc = "idle" /\ pc' = "start" /\ call' = c /\ seen' = {db}
      /\ cut' = FALSE
      /\ UNCHANGED <<config, db, writes, leftover, answer, kept>>
  BY <1>1 DEF Begin
<1>3. TypeOK'
  BY <1>2 DEF IInv, TypeOK, config
<1>4. RowsInv'
  BY <1>2 DEF IInv, RowsInv
<1>5. ErrorInv' /\ AnswersAreOwn' /\ ErrorsAreTrue'
  BY <1>2 DEF IInv, ErrorInv, AnswersAreOwn, ErrorsAreTrue, config
<1> QED
  BY <1>3, <1>4, <1>5 DEF IInv

LEMMA OthersInv == ASSUME IInv, OthersWrite PROVE IInv'
<1>1. /\ writes' = writes + 1 /\ db' \in seen' /\ seen \subseteq seen'
      /\ UNCHANGED <<config, request, dump, pc, leftover, rows, answer, cut, kept>>
  BY DEF OthersWrite
<1>2. TypeOK'
  BY <1>1 DEF IInv, TypeOK, config, request
<1>3. RowsInv'
  BY <1>1 DEF IInv, RowsInv, OwnRows, dump
<1>4. ErrorInv'
  BY <1>1 DEF IInv, ErrorInv, config, request
<1>5. AnswersAreOwn'
  BY <1>1 DEF IInv, AnswersAreOwn, request, dump
<1>6. ErrorsAreTrue'
  BY <1>1 DEF IInv, ErrorsAreTrue, config, request
<1> QED
  BY <1>2, <1>3, <1>4, <1>5, <1>6 DEF IInv

\* A call that fails: the error is true of the state that is left.
LEMMA FailInv ==
  ASSUME IInv, NEW kind \in {"timeout", "query", "connection"}, Return(kind),
         UNCHANGED <<config, world, request, number, kept>>,
         pc \notin {"open", "closed"}, ErrorIsTrue(kind),
         call.kind = "probe" /\ kind \in {"timeout", "query"} => cut',
         cut' \in BOOLEAN,
         ~ kept => leftover' = NoRows
  PROVE  IInv'
<1>1. available /\ kept \in BOOLEAN
  BY DEF IInv, ErrorInv, TypeOK
<1>2. kind \in Kinds \ {"none", "schema"}
  BY DEF Kinds
<1> QED
  BY <1>1, <1>2, ReturnInv

LEMMA Neo4jInv ==
  ASSUME IInv, StartTxn \/ Execute \/ Stream \/ Rollback \/ Timeout \/ Reopen
  PROVE  IInv'
<1>1. /\ backend = "neo4j" /\ available /\ db \in seen
      /\ pc \in {"start", "execute", "stream", "rollback", "reopen"}
      /\ UNCHANGED <<config, world, writes, request>> /\ db' = db /\ seen' = seen
      /\ call \in Run \cup {Probe, Dump} /\ cut \in BOOLEAN /\ kept \in BOOLEAN
      /\ ~ kept /\ pc # "reopen" => leftover = NoRows
      /\ ~ kept /\ pc \in {"stream", "rollback"} => OwnRows(rows)
      /\ pc = "reopen" => call.bounded
  BY DEF StartTxn, Execute, Stream, Rollback, Timeout, Reopen, InTransaction,
         IInv, TypeOK, RowsInv, ErrorInv, world
<1>2. CASE StartTxn
  <2>1. /\ pc = "start" /\ UNCHANGED <<number, leftover, rows, kept>>
        /\ \/ pc' = "execute" /\ UNCHANGED <<answer, cut>>
           \/ Return("connection") /\ cut' = TRUE
    BY <1>2 DEF StartTxn, dump
  <2>2. CASE pc' = "execute" /\ UNCHANGED <<answer, cut>>
    BY <1>1, <2>1, <2>2, GoOn
  <2>3. CASE Return("connection") /\ cut' = TRUE
    BY <1>1, <2>1, <2>3, FailInv DEF ErrorIsTrue
  <2> QED
    BY <2>1, <2>2, <2>3
<1>3. CASE Execute
  <2>1. pc = "execute" /\ UNCHANGED <<number, kept>>
    BY <1>3 DEF Execute, dump
  <2>2. CASE /\ rows' = IF leftover = NoRows THEN RowsRead ELSE leftover
             /\ leftover' = NoRows /\ pc' = "stream" /\ UNCHANGED <<answer, cut>>
    <3>1. ~ kept => OwnRows(rows)'
      BY <1>1, <2>1, <2>2 DEF OwnRows, RowsRead
    <3> QED
      BY <1>1, <2>1, <2>2, <3>1, GoOn
  <2>3. CASE call.fault # "none" /\ Return("query") /\ UNCHANGED <<leftover, cut>>
    BY <1>1, <2>1, <2>3, FailInv, CallFacts DEF ErrorIsTrue
  <2>4. CASE Return("query") /\ cut' = TRUE /\ UNCHANGED leftover
    BY <1>1, <2>1, <2>4, FailInv DEF ErrorIsTrue
  <2> QED
    BY <1>3, <2>2, <2>3, <2>4 DEF Execute
<1>4. CASE Stream
  <2>1. pc = "stream" /\ UNCHANGED <<number, rows>>
    BY <1>4 DEF Stream, dump
  <2>2. CASE pc' = "rollback" /\ UNCHANGED <<answer, cut, leftover, kept>>
    <3>1. ~ kept => OwnRows(rows)'
      BY <1>1, <2>1 DEF OwnRows
    <3> QED
      BY <1>1, <2>1, <2>2, <3>1, GoOn
  <2>3. CASE call.fault # "none" /\ Return("query") /\ UNCHANGED <<cut, leftover, kept>>
    BY <1>1, <2>1, <2>3, FailInv, CallFacts DEF ErrorIsTrue
  <2>4. CASE Return("query") /\ cut' = TRUE /\ UNCHANGED <<leftover, kept>>
    BY <1>1, <2>1, <2>4, FailInv DEF ErrorIsTrue
  <2>5. CASE call.fault # "none" /\ Return("query") /\ UNCHANGED cut /\ kept' = TRUE
    <3>1. "query" \in Kinds \ {"none", "schema"}
      BY DEF Kinds
    <3> QED
      BY <1>1, <2>1, <2>5, <3>1, ReturnInv, CallFacts DEF ErrorIsTrue
  <2> QED
    BY <1>4, <2>2, <2>3, <2>4, <2>5 DEF Stream
<1>5. CASE Rollback
  <2>1. pc = "rollback" /\ UNCHANGED <<config, leftover, rows, kept>>
    BY <1>5 DEF Rollback
  <2>2. CASE Deliver /\ UNCHANGED cut
    BY <1>1, <2>1, <2>2, DeliverInv
  <2>3. CASE Return("connection") /\ cut' = TRUE /\ UNCHANGED dump
    BY <1>1, <2>1, <2>3, FailInv DEF ErrorIsTrue, dump
  <2> QED
    BY <1>5, <2>2, <2>3 DEF Rollback
<1>6. CASE Timeout
  <2>1. /\ call.bounded /\ pc' = "reopen" /\ pc \in {"start", "execute", "stream", "rollback"}
        /\ UNCHANGED <<number, answer, cut, kept>>
    BY <1>6 DEF Timeout, InTransaction, dump
  <2> QED
    BY <1>1, <2>1, GoOn
<1>7. CASE Reopen
  <2>1. pc = "reopen" /\ UNCHANGED <<number, rows>>
    BY <1>7 DEF Reopen, dump
  <2>2. CASE leftover' = NoRows /\ kept' = FALSE /\ Return("timeout") /\ UNCHANGED cut
    <3>1. "timeout" \in Kinds \ {"none", "schema"}
      BY DEF Kinds
    <3> QED
      BY <1>1, <2>1, <2>2, <3>1, ReturnInv, CallFacts DEF ErrorIsTrue
  <2>3. CASE Return("connection") /\ cut' = TRUE /\ kept' = TRUE
    <3>1. "connection" \in Kinds \ {"none", "schema"}
      BY DEF Kinds
    <3> QED
      BY <1>1, <2>1, <2>3, <3>1, ReturnInv DEF ErrorIsTrue
  <2> QED
    BY <1>7, <2>2, <2>3 DEF Reopen
<1> QED
  BY <1>2, <1>3, <1>4, <1>5, <1>6, <1>7

LEMMA FalkorDbInv == ASSUME IInv, ReadOnlyQuery \/ ReadReply PROVE IInv'
<1>1. CASE ReadReply
  BY <1>1, DeliverInv DEF ReadReply
<1>2. CASE ReadOnlyQuery
  <2>1. /\ backend = "falkordb" /\ pc = "start" /\ available /\ db \in seen
        /\ UNCHANGED <<config, world, request, number, leftover, kept>>
        /\ call \in Run \cup {Probe, Dump} /\ cut \in BOOLEAN /\ kept \in BOOLEAN
        /\ ~ kept => leftover = NoRows
    BY <1>2 DEF ReadOnlyQuery, IInv, TypeOK, RowsInv, ErrorInv, dump
  <2>2. CASE /\ rows' \in {RowsRead} \cup
                   IF CappedLimit > U32Max THEN {[RowsRead EXCEPT !.whole = FALSE]} ELSE {}
             /\ pc' = "reply" /\ UNCHANGED <<answer, cut>>
    <3>0. call.limit \in {Few, I64Max}
      BY <2>1, CallFacts
    <3>1. ~ (CappedLimit > U32Max)
      BY <3>0 DEF CappedLimit, Few, I32Max, I64Max, U32Max
    <3>2. rows' = RowsRead
      BY <2>2, <3>1
    <3>3. OwnRows(rows)'
      BY <2>1, <3>2 DEF OwnRows, RowsRead, world
    <3>4. db' \in seen' /\ writes' = writes
      BY <2>1 DEF world
    <3> QED
      BY <2>1, <2>2, <3>3, <3>4, GoOn
  <2>3. CASE /\ call.fault # "none" \/ call.writes
             /\ Return(FalkorDbError(call.fault)) /\ UNCHANGED cut
    <3>1. FalkorDbError(call.fault) = "query" /\ call.kind # "probe"
      BY <2>1, <2>3, CallFacts DEF FalkorDbError, Faults
    <3> QED
      BY <2>1, <2>3, <3>1, FailInv DEF ErrorIsTrue
  <2>4. CASE ServerMayTimeOut /\ Return(FalkorDbError("timed out")) /\ UNCHANGED cut
    <3>1. FalkorDbError("timed out") = "timeout" /\ call.bounded /\ call.kind # "probe"
      BY <2>1, <2>4, CallFacts DEF FalkorDbError, ServerMayTimeOut
    <3> QED
      BY <2>1, <2>4, <3>1, FailInv DEF ErrorIsTrue
  <2>5. CASE /\ \E fault \in {"connection down", "other"} : Return(FalkorDbError(fault))
             /\ cut' = TRUE
    <3>1. PICK kind \in {"connection", "query"} : Return(kind)
      BY <2>5 DEF FalkorDbError
    <3> QED
      BY <2>1, <2>5, <3>1, FailInv DEF ErrorIsTrue
  <2> QED
    BY <1>2, <2>2, <2>3, <2>4, <2>5 DEF ReadOnlyQuery
<1> QED
  BY <1>1, <1>2

LEMMA LadybugInv == ASSUME IInv, QueryLadybug \/ ReadResult PROVE IInv'
<1>1. CASE ReadResult
  BY <1>1, DeliverInv DEF ReadResult
<1>2. CASE QueryLadybug
  <2>1. /\ backend = "ladybug" /\ pc = "start" /\ available /\ db \in seen
        /\ UNCHANGED <<config, world, request, number, leftover, kept>>
        /\ call \in Run \cup {Probe, Dump} /\ cut \in BOOLEAN /\ kept \in BOOLEAN
        /\ ~ kept => leftover = NoRows
    BY <1>2 DEF QueryLadybug, IInv, TypeOK, RowsInv, ErrorInv, dump
  <2>2. CASE rows' = RowsRead /\ pc' = "reply" /\ UNCHANGED <<answer, cut>>
    <3>1. OwnRows(rows)'
      BY <2>1, <2>2 DEF OwnRows, RowsRead, world
    <3>2. db' \in seen' /\ writes' = writes
      BY <2>1 DEF world
    <3> QED
      BY <2>1, <2>2, <3>1, <3>2, GoOn
  <2>3. CASE ~ Prepared /\ Return(LadybugError(call.fault)) /\ UNCHANGED cut
    <3>1. call.fault # "none" \/ call.writes
      BY <2>1, <2>3, CallFacts DEF Prepared, BoundParameters
    <3>2. call.kind # "probe"
      BY <2>1, <3>1, CallFacts
    <3>3. \/ LadybugError(call.fault) = "timeout" /\ call.fault = "names a timeout"
          \/ LadybugError(call.fault) = "query"
      BY <2>1, CallFacts DEF LadybugError, Faults
    <3> QED
      BY <2>1, <2>3, <3>1, <3>2, <3>3, FailInv DEF ErrorIsTrue
  <2>4. CASE call.bounded /\ Return(LadybugError("interrupted")) /\ UNCHANGED cut
    <3>1. LadybugError("interrupted") = "timeout" /\ call.kind # "probe"
      BY <2>1, <2>4, CallFacts DEF LadybugError
    <3> QED
      BY <2>1, <2>4, <3>1, FailInv DEF ErrorIsTrue
  <2>5. CASE Return("connection") /\ cut' = TRUE
    BY <2>1, <2>5, FailInv DEF ErrorIsTrue
  <2> QED
    BY <1>2, <2>2, <2>3, <2>4, <2>5 DEF QueryLadybug
<1> QED
  BY <1>1, <1>2

-----------------------------------------------------------------------------
LEMMA StepInv == ASSUME IInv, [Next]_vars PROVE IInv'
<1>1. CASE Next
  BY <1>1, OpenInv, BeginInv, OthersInv, Neo4jInv, FalkorDbInv, LadybugInv DEF Next
<1>2. CASE UNCHANGED vars
  <2>1. UNCHANGED <<backend, available, present, db, writes, seen, call, number, pc,
                    leftover, rows, answer, cut, kept>>
    BY <1>2 DEF vars, config, world, request, dump
  <2>2. TypeOK'
    BY <2>1 DEF IInv, TypeOK
  <2>3. RowsInv' /\ ErrorInv'
    BY <2>1 DEF IInv, RowsInv, OwnRows, ErrorInv
  <2>4. AnswersAreOwn' /\ ErrorsAreTrue'
    BY <2>1 DEF IInv, AnswersAreOwn, ErrorsAreTrue
  <2> QED
    BY <2>2, <2>3, <2>4 DEF IInv
<1> QED
  BY <1>1, <1>2

\* Rows and errors stay with the calls they belong to, for every backend, any number
\* of calls and writers, and whatever breaks.
THEOREM Invariance == Spec => []IInv
<1>1. Init => IInv
  BY InitInv
<1>2. IInv /\ [Next]_vars => IInv'
  BY StepInv
<1> QED
  BY <1>1, <1>2, PTL DEF Spec

\* Type correctness of an executor and its call.
THEOREM TypeCorrect == Spec => []TypeOK
<1>1. IInv => TypeOK
  BY DEF IInv
<1> QED
  BY <1>1, Invariance, PTL

\* The rows a call returns are all the rows of its own query, as long as every pool
\* that a timeout spoilt could be replaced.
THEOREM OwnAnswers == Spec => []AnswersAreOwn
<1>1. IInv => AnswersAreOwn
  BY DEF IInv
<1> QED
  BY <1>1, Invariance, PTL

\* A call reports a timeout, a failed query, a lost connection or a missing backend
\* only when that is what happened.
THEOREM TrueErrors == Spec => []ErrorsAreTrue
<1>1. IInv => ErrorsAreTrue
  BY DEF IInv
<1> QED
  BY <1>1, Invariance, PTL

-----------------------------------------------------------------------------
(* What the columns of a dump say of the values they were derived from.    *)

LEMMA SingleIs ==
  ASSUME NEW S, NEW x \in S, Single(S)
  PROVE  S = {x} /\ (CHOOSE t \in S : TRUE) = x
<1>1. S = {x}
  BY DEF Single
<1>2. (CHOOSE t \in S : TRUE) \in S
  OBVIOUS
<1> QED
  BY <1>1, <1>2

\* A value fits the type that all the values have in common.
LEMMA CommonTypeFits ==
  ASSUME NEW b, NEW values, NEW v \in values, \A w \in values : w.list \in BOOLEAN
  PROVE  Fits(b, v, CommonType(b, values))
<1> DEFINE elements == UNION {w.of : w \in values}
           only == IF Single(elements) THEN TypeNamed(b, CHOOSE t \in elements : TRUE)
                   ELSE "ANY"
<1>1. CASE ~ Single({w.list : w \in values})
  BY <1>1 DEF Fits, CommonType
<1>2. CASE Single({w.list : w \in values})
  <2>1. {w.list : w \in values} = {v.list}
    BY <1>2, SingleIs
  <2>2. v.list = (\E w \in values : w.list)
    BY <2>1
  <2>3. only = "ANY" \/ {TypeNamed(b, t) : t \in v.of} \subseteq {only}
    <3>1. ASSUME Single(elements), NEW t \in v.of PROVE TypeNamed(b, t) = only
      <4>1. t \in elements
        OBVIOUS
      <4> QED
        BY <3>1, <4>1, SingleIs
    <3> QED
      BY <3>1
  <2>4. CommonType(b, values) = [list |-> \E w \in values : w.list, of |-> only]
    BY <1>2 DEF CommonType
  <2> HIDE DEF only
  <2>5. CommonType(b, values).list = v.list /\ CommonType(b, values).of = only
    BY <2>2, <2>4
  <2> QED
    BY <2>3, <2>5 DEF Fits
<1> QED
  BY <1>1, <1>2

\* A property of an owner has a column, and its value fits the column.
LEMMA ColumnsFit ==
  ASSUME NEW b, NEW owners, NEW o \in owners, NEW key \in DOMAIN o.props,
         \A p \in owners : \A k \in DOMAIN p.props : p.props[k].list \in BOOLEAN
  PROVE  key \in DOMAIN Columns(b, owners) /\ Fits(b, o.props[key], Columns(b, owners)[key])
<1> DEFINE Holding(group) == {p.props[key] : p \in {q \in group : key \in DOMAIN q.props}}
           groups == {{p \in owners : p.kind = kind} : kind \in {p.kind : p \in owners}}
           types == {CommonType(b, Holding(g)) : g \in {h \in groups : Holding(h) # {}}}
<1>1. /\ key \in DOMAIN Columns(b, owners)
      /\ Columns(b, owners)[key] = IF b = "neo4j" THEN Merged(types)
                                ELSE CommonType(b, Holding(owners))
  BY DEF Columns
<1>2. ASSUME NEW group \in SUBSET owners, o \in group
      PROVE  Fits(b, o.props[key], CommonType(b, Holding(group)))
  <2>1. o.props[key] \in Holding(group)
    BY <1>2
  <2>2. \A w \in Holding(group) : w.list \in BOOLEAN
    OBVIOUS
  <2> HIDE DEF Holding
  <2> QED
    BY <2>1, <2>2, CommonTypeFits
<1>3. CASE b # "neo4j"
  BY <1>1, <1>2, <1>3
<1>4. CASE b = "neo4j"
  <2> DEFINE group == {p \in owners : p.kind = o.kind}
  <2>1. group \in groups /\ o \in group /\ group \in SUBSET owners
    OBVIOUS
  <2>2. Holding(group) # {}
    BY <2>1
  <2>3. CommonType(b, Holding(group)) \in types
    BY <2>1, <2>2
  <2>4. CASE Single(types)
    <3>1. Merged(types) = CommonType(b, Holding(group))
      BY <2>3, <2>4, SingleIs DEF Merged
    <3> QED
      BY <1>1, <1>2, <1>4, <2>1, <3>1
  <2>5. CASE ~ Single(types)
    <3>1. Columns(b, owners)[key] = AnyType
      BY <1>1, <1>4, <2>5 DEF Merged
    <3> QED
      BY <1>1, <3>1 DEF Fits
  <2> QED
    BY <2>4, <2>5
<1> QED
  BY <1>3, <1>4

-----------------------------------------------------------------------------
(* What the next query of a dump adds to the snapshot of a graph.           *)

LabelRows(b, g) == Owning(b, LabelsOf(g), LAMBDA l : NodesWith(g, l))
TypeRows(b, g) == Owning(b, TypesOf(g), LAMBDA t : RelsWith(g, t))

\* The columns of the nodes and relationships, as one query reads them.
ReadNodes(b, g, nodes) ==
    \A l \in LabelRows(b, g) : l \in DOMAIN nodes /\ nodes[l] = Columns(b, NodesWith(g, l))
ReadRels(b, g, rels) ==
    \A t \in TypeRows(b, g) :
       t \in DOMAIN rels /\ rels[t].properties = Columns(b, RelsWith(g, t))

\* The part of the snapshot that describes nodes, when the queries in left are left: each
\* query has read one of the graphs.
NodesKnown(b, graphs, nodes, left) ==
    /\ \A l \in DOMAIN nodes : \E g \in graphs :
          l \in LabelsOf(g) /\ nodes[l] \in {None, Columns(b, NodesWith(g, l))}
    /\ "node properties" \notin left => \E g \in graphs : ReadNodes(b, g, nodes)
    /\ b # "neo4j" /\ "labels" \notin left /\ "tables" \notin left =>
          \E g \in graphs : LabelsOf(g) \subseteq DOMAIN nodes

\* The part that describes relationships, before their endpoints are known.
RelsKnown(b, graphs, rels, left) ==
    /\ \A t \in DOMAIN rels : DOMAIN rels[t] = {"properties", "endpoints"}
    /\ "type properties" \notin left => \E g \in graphs : ReadRels(b, g, rels)
    /\ b # "neo4j" /\ "types" \notin left /\ "tables" \notin left =>
          \E g \in graphs : TypesOf(g) \subseteq DOMAIN rels

\* What is known of some graphs is known of more.
LEMMA KnownOfMore ==
  ASSUME NEW b, NEW graphs, NEW more, graphs \subseteq more, NEW nodes, NEW rels, NEW left
  PROVE  /\ NodesKnown(b, graphs, nodes, left) => NodesKnown(b, more, nodes, left)
         /\ RelsKnown(b, graphs, rels, left) => RelsKnown(b, more, rels, left)
<1>1. NodesKnown(b, graphs, nodes, left) => NodesKnown(b, more, nodes, left)
  BY DEF NodesKnown
<1>2. RelsKnown(b, graphs, rels, left) => RelsKnown(b, more, rels, left)
  BY DEF RelsKnown
<1> QED
  BY <1>1, <1>2

LEMMA CollectsNodes ==
  ASSUME NEW graphs, NEW g \in graphs, NEW query, NEW left,
         NodesKnown(backend, graphs, snapshot.nodes, left)
  PROVE  NodesKnown(backend, graphs, NodesAfter(query, g), left \ {query})
<1> DEFINE nodes == snapshot.nodes
           after == NodesAfter(query, g)
<1>0. \A l \in DOMAIN nodes : \E h \in graphs :
         l \in LabelsOf(h) /\ nodes[l] \in {None, Columns(backend, NodesWith(h, l))}
  BY DEF NodesKnown
<1>1. CASE query \in {"tables", "labels"}
  <2>1. after = [k \in DOMAIN nodes \cup LabelsOf(g) |->
                    IF k \in DOMAIN nodes THEN nodes[k] ELSE None]
    BY <1>1 DEF NodesAfter, Named
  <2>2. /\ DOMAIN after = DOMAIN nodes \cup LabelsOf(g)
        /\ \A l \in DOMAIN nodes : after[l] = nodes[l]
        /\ \A l \in LabelsOf(g) \ DOMAIN nodes : after[l] = None
    BY <2>1
  <2> HIDE DEF after, nodes
  <2>3. \A l \in DOMAIN after : \E h \in graphs :
           l \in LabelsOf(h) /\ after[l] \in {None, Columns(backend, NodesWith(h, l))}
    BY <1>0, <2>2
  <2>4. \A h : ReadNodes(backend, h, nodes) => ReadNodes(backend, h, after)
    BY <2>2 DEF ReadNodes
  <2> QED
    BY <1>1, <2>2, <2>3, <2>4 DEF NodesKnown, nodes, after
<1>2. CASE query = "node properties"
  <2>1. after = [k \in DOMAIN nodes \cup LabelRows(backend, g) |->
                    IF k \in LabelRows(backend, g)
                    THEN Columns(backend, NodesWith(g, k)) ELSE nodes[k]]
    BY <1>2 DEF NodesAfter, Extended, LabelRows
  <2>2. LabelRows(backend, g) \subseteq LabelsOf(g)
    BY DEF LabelRows, Owning
  <2>3. /\ DOMAIN after = DOMAIN nodes \cup LabelRows(backend, g)
        /\ \A l \in DOMAIN nodes \ LabelRows(backend, g) : after[l] = nodes[l]
        /\ \A l \in LabelRows(backend, g) : after[l] = Columns(backend, NodesWith(g, l))
    BY <2>1
  <2> HIDE DEF after, nodes
  <2>4. \A l \in DOMAIN after : \E h \in graphs :
           l \in LabelsOf(h) /\ after[l] \in {None, Columns(backend, NodesWith(h, l))}
    BY <1>0, <2>2, <2>3
  <2>5. ReadNodes(backend, g, after)
    BY <2>3 DEF ReadNodes
  <2> QED
    BY <1>2, <2>3, <2>4, <2>5 DEF NodesKnown, nodes, after
<1>3. CASE query \notin {"labels", "tables", "node properties"}
  <2>1. after = nodes
    BY <1>3 DEF NodesAfter
  <2> QED
    BY <1>3, <2>1 DEF NodesKnown
<1> QED
  BY <1>1, <1>2, <1>3

LEMMA CollectsRels ==
  ASSUME NEW graphs, NEW g \in graphs, NEW query, NEW left,
         RelsKnown(backend, graphs, snapshot.rels, left)
  PROVE  RelsKnown(backend, graphs, RelsAfter(query, g), left \ {query})
<1> DEFINE rels == snapshot.rels
           after == RelsAfter(query, g)
           fresh == [properties |-> None, endpoints |-> {}]
<1>0. \A t \in DOMAIN rels : DOMAIN rels[t] = {"properties", "endpoints"}
  BY DEF RelsKnown
<1>1. CASE query \in {"tables", "types"}
  <2>1. after = [t \in DOMAIN rels \cup TypesOf(g) |->
                    IF t \in DOMAIN rels THEN rels[t] ELSE fresh]
    BY <1>1 DEF RelsAfter
  <2>2. /\ DOMAIN after = DOMAIN rels \cup TypesOf(g)
        /\ \A t \in DOMAIN rels : after[t] = rels[t]
        /\ \A t \in TypesOf(g) \ DOMAIN rels : after[t] = fresh
    BY <2>1
  <2>3. DOMAIN fresh = {"properties", "endpoints"}
    OBVIOUS
  <2> HIDE DEF after, rels, fresh
  <2>4. \A t \in DOMAIN after : DOMAIN after[t] = {"properties", "endpoints"}
    BY <1>0, <2>2, <2>3
  <2>5. \A h : ReadRels(backend, h, rels) => ReadRels(backend, h, after)
    BY <2>2 DEF ReadRels
  <2> QED
    BY <1>1, <2>2, <2>4, <2>5 DEF RelsKnown, rels, after
<1>2. CASE query = "type properties"
  <2>1. after = [t \in DOMAIN rels \cup TypeRows(backend, g) |->
           IF t \in TypeRows(backend, g)
           THEN [properties |-> Columns(backend, RelsWith(g, t)), endpoints |-> {}]
           ELSE rels[t]]
    BY <1>2 DEF RelsAfter, Extended, TypeRows
  <2>2. /\ DOMAIN after = DOMAIN rels \cup TypeRows(backend, g)
        /\ \A t \in DOMAIN rels \ TypeRows(backend, g) : after[t] = rels[t]
        /\ \A t \in TypeRows(backend, g) :
              after[t] = [properties |-> Columns(backend, RelsWith(g, t)), endpoints |-> {}]
    BY <2>1
  <2> HIDE DEF after, rels
  <2>3. \A t \in DOMAIN after : DOMAIN after[t] = {"properties", "endpoints"}
    BY <1>0, <2>2
  <2>4. ReadRels(backend, g, after)
    BY <2>2 DEF ReadRels
  <2> QED
    BY <1>2, <2>2, <2>3, <2>4 DEF RelsKnown, rels, after
<1>3. CASE query = "endpoints"
  <2>1. after = [t \in DOMAIN rels |-> [rels[t] EXCEPT !.endpoints = EndpointsOf(g, t)]]
    BY <1>3 DEF RelsAfter, Extended
  <2>2. /\ DOMAIN after = DOMAIN rels
        /\ \A t \in DOMAIN rels : /\ DOMAIN after[t] = {"properties", "endpoints"}
                                 /\ after[t].properties = rels[t].properties
    BY <1>0, <2>1
  <2> HIDE DEF after, rels
  <2>3. \A h : ReadRels(backend, h, rels) => ReadRels(backend, h, after)
    BY <2>2 DEF ReadRels
  <2> QED
    BY <1>3, <2>2, <2>3 DEF RelsKnown, rels, after
<1>4. CASE query \notin {"tables", "types", "type properties", "endpoints"}
  <2>1. after = rels
    BY <1>4 DEF RelsAfter
  <2> QED
    BY <1>4, <2>1 DEF RelsKnown
<1> QED
  BY <1>1, <1>2, <1>3, <1>4

\* The last query of a dump reads the endpoints of the types that are known.
LEMMA CollectsEndpoints ==
  ASSUME NEW g, NEW graphs, NEW left, RelsKnown(backend, graphs, snapshot.rels, left)
  PROVE  /\ DOMAIN RelsAfter("endpoints", g) = DOMAIN snapshot.rels
         /\ \A t \in DOMAIN snapshot.rels :
               RelsAfter("endpoints", g)[t].endpoints = EndpointsOf(g, t)
<1>1. RelsAfter("endpoints", g) = [t \in DOMAIN snapshot.rels |->
         [snapshot.rels[t] EXCEPT !.endpoints = EndpointsOf(g, t)]]
  BY DEF RelsAfter, Extended
<1> QED
  BY <1>1 DEF RelsKnown

-----------------------------------------------------------------------------
(* Schema dumps.                                                           *)

\* Rows that an earlier call left unread are met, if at all, by the next query.
StaleInv ==
    /\ seen \subseteq Graphs[backend] /\ number \in Nat /\ number > 0
    /\ leftover.query \in 0 .. number /\ rows.query \in 0 .. number
    /\ leftover # NoRows => backend = "neo4j"
    /\ pc \notin {"reopen", "idle", "closed"} => leftover.query < number
    /\ pc \in {"stream", "rollback", "reply"} => leftover = NoRows
    /\ pc \in {"stream", "rollback", "reply"} /\ rows.query = number => OwnRows(rows)
    /\ pc = "reply" => backend # "neo4j" /\ rows.query = number

InDump == call.kind = "dump" /\ pc \in {"start", "execute", "stream", "rollback", "reply"}

Queries == {"tables", "labels", "node properties", "types", "type properties", "endpoints"}

\* The queries that are left: each once, the endpoints last.  Only the first query of
\* a Neo4j dump, for the labels, may get the rows of an earlier call.
TodoInv ==
    InDump =>
        /\ todo \in Seq(Queries) /\ Len(todo) > 0
        /\ \A i, j \in 1 .. Len(todo) : todo[i] = todo[j] => i = j
        /\ todo[Len(todo)] = "endpoints"
        /\ leftover # NoRows => todo[1] = "labels"
        /\ pc \in {"stream", "rollback", "reply"} /\ rows.query # number =>
              backend = "neo4j" /\ todo[1] = "labels"

QueriesLeft == {todo[i] : i \in 1 .. Len(todo)}

\* The snapshot holds what each of the queries so far has read, of the graph it met.
SnapshotInv ==
    InDump =>
        /\ NodesKnown(backend, seen, snapshot.nodes, QueriesLeft)
        /\ RelsKnown(backend, seen, snapshot.rels, QueriesLeft)

DumpInv == StaleInv /\ TodoInv /\ SnapshotInv /\ DumpsDescribeWhatStays

\* A call that ends, other than with a snapshot, leaves at most its own rows behind.
LEMMA EndsDump ==
  ASSUME IInv, DumpInv, UNCHANGED <<backend, db, seen, number, rows>>,
         pc' \in {"idle", "closed", "reopen"}, pc' = "idle" => answer'.kind # "schema",
         leftover' = leftover \/ leftover' = NoRows \/ (leftover' = rows /\ backend = "neo4j")
  PROVE  DumpInv'
<1>1. NoRows.query = 0
  BY DEF NoRows
<1>2. StaleInv'
  BY <1>1 DEF DumpInv, StaleInv
<1>3. ~ InDump' /\ DumpsDescribeWhatStays'
  BY DEF InDump, DumpsDescribeWhatStays
<1> QED
  BY <1>2, <1>3 DEF DumpInv, TodoInv, SnapshotInv

\* A step inside a query of a dump.
LEMMA QueryGoesOn ==
  ASSUME IInv, DumpInv, UNCHANGED <<backend, number, db, seen, call, todo, snapshot>>,
         pc \in {"start", "execute", "stream"},
         pc' \in {"execute", "stream", "rollback", "reply"},
         pc = "stream" <=> pc' = "rollback",
         \/ /\ UNCHANGED <<leftover, rows>> /\ (pc = "start" <=> pc' = "execute")
            /\ pc' \in {"execute", "rollback"}
         \/ /\ leftover' = NoRows /\ rows' = leftover /\ leftover # NoRows
            /\ pc' = "stream"
         \/ /\ leftover' = NoRows /\ rows'.query = number /\ OwnRows(rows)'
            /\ pc' \in {"stream", "reply"} /\ (pc' = "reply" => backend # "neo4j")
  PROVE  DumpInv'
<1>1. NoRows.query = 0
  BY DEF NoRows
<1>2. StaleInv'
  BY <1>1 DEF DumpInv, StaleInv, OwnRows
<1>3. TodoInv'
  BY DEF DumpInv, StaleInv, TodoInv, InDump
<1>4. SnapshotInv'
  BY DEF DumpInv, SnapshotInv, InDump, QueriesLeft
<1>5. DumpsDescribeWhatStays'
  BY DEF DumpsDescribeWhatStays
<1> QED
  BY <1>2, <1>3, <1>4, <1>5 DEF DumpInv

\* Nodes and relationships of a graph have values that are lists or not, and
\* relationships join nodes.
LEMMA GraphFacts ==
  ASSUME NEW b \in Backends, NEW g \in Graphs[b], NEW n
  PROVE  /\ \A o \in NodesWith(g, n) \cup RelsWith(g, n) : \A k \in DOMAIN o.props :
               o.props[k].list \in BOOLEAN
         /\ EndpointsOf(g, n) \subseteq LabelsOf(g) \X LabelsOf(g)
<1>1. \A i \in DOMAIN g.nodes : g.nodes[i].labels \subseteq LabelsOf(g)
  BY DEF LabelsOf
<1>2. \A r \in g.rels : r.from \in DOMAIN g.nodes /\ r.to \in DOMAIN g.nodes
  BY GraphsAssumption
<1>3. EndpointsOf(g, n) \subseteq LabelsOf(g) \X LabelsOf(g)
  BY <1>1, <1>2 DEF EndpointsOf
<1>4. \A o \in NodesWith(g, n) : \A k \in DOMAIN o.props : o.props[k].list \in BOOLEAN
  BY GraphsAssumption DEF NodesWith
<1>5. \A o \in RelsWith(g, n) : \A k \in DOMAIN o.props : o.props[k].list \in BOOLEAN
  BY GraphsAssumption DEF RelsWith
<1> QED
  BY <1>3, <1>4, <1>5

\* Once the queries for nodes are done, the snapshot describes the nodes that stayed.
LEMMA CompleteNodes ==
  ASSUME IInv, StaleInv, NEW s, NodesKnown(backend, seen, s.nodes, {})
  PROVE  DescribesNodes(s)
<1>1. backend \in Backends /\ seen \subseteq Graphs[backend]
  BY DEF IInv, TypeOK, StaleInv
<1>2. PICK g \in seen : ReadNodes(backend, g, s.nodes)
  BY DEF NodesKnown
<1>3. Stayed(LabelsOf) \subseteq DOMAIN s.nodes
  <2>1. CASE backend = "neo4j"
    <3>1. LabelsOf(g) \subseteq DOMAIN s.nodes
      BY <1>2, <2>1 DEF ReadNodes, LabelRows, Owning
    <3> QED
      BY <3>1 DEF Stayed
  <2>2. CASE backend # "neo4j"
    <3>1. PICK h \in seen : LabelsOf(h) \subseteq DOMAIN s.nodes
      BY <2>2 DEF NodesKnown
    <3> QED
      BY <3>1 DEF Stayed
  <2> QED
    BY <2>1, <2>2
<1>4. ASSUME NEW l \in DOMAIN s.nodes, NEW o, \A h \in seen : o \in NodesWith(h, l),
             NEW key \in DOMAIN o.props
      PROVE  key \in DOMAIN s.nodes[l] /\ Fits(backend, o.props[key], s.nodes[l][key])
  <2>1. o \in NodesWith(g, l)
    BY <1>4
  <2>2. l \in LabelRows(backend, g)
    BY <1>4, <2>1 DEF LabelRows, Owning, LabelsOf, NodesWith
  <2>3. s.nodes[l] = Columns(backend, NodesWith(g, l))
    BY <1>2, <2>2 DEF ReadNodes
  <2>4. \A p \in NodesWith(g, l) : \A k \in DOMAIN p.props : p.props[k].list \in BOOLEAN
    BY <1>1, GraphFacts
  <2> QED
    BY <1>4, <2>1, <2>3, <2>4, ColumnsFit
<1>5. \A l \in DOMAIN s.nodes : \E h \in seen :
         l \in LabelsOf(h) /\ s.nodes[l] \in {None, Columns(backend, NodesWith(h, l))}
  BY DEF NodesKnown
<1> QED
  BY <1>3, <1>4, <1>5 DEF DescribesNodes, Stayed

\* Once all queries are done, the snapshot describes the relationships that stayed:
\* the last query read the endpoints of the types of one graph.
LEMMA CompleteRels ==
  ASSUME IInv, StaleInv, NEW s, NEW g \in seen, RelsKnown(backend, seen, s.rels, {}),
         \A t \in DOMAIN s.rels : s.rels[t].endpoints = EndpointsOf(g, t)
  PROVE  DescribesRels(Finished(s))
<1> DEFINE declared == {t \in DOMAIN s.rels : s.rels[t].endpoints # {}}
           Joining(h) == {t \in TypesOf(h) : EndpointsOf(h, t) # {}}
<1>1. backend \in Backends /\ seen \subseteq Graphs[backend]
  BY DEF IInv, TypeOK, StaleInv
<1>2. DOMAIN Finished(s).rels = declared /\ \A t \in declared : Finished(s).rels[t] = s.rels[t]
  BY DEF Finished
<1>3. PICK p \in seen : ReadRels(backend, p, s.rels)
  BY DEF RelsKnown
<1>4. Stayed(Joining) \subseteq declared
  <2>1. PICK h \in seen : TypesOf(h) \subseteq DOMAIN s.rels
    <3>1. CASE backend = "neo4j"
      BY <1>3, <3>1 DEF ReadRels, TypeRows, Owning
    <3>2. CASE backend # "neo4j"
      BY <3>2 DEF RelsKnown
    <3> QED
      BY <3>1, <3>2
  <2> QED
    BY <2>1 DEF Stayed
<1>5. ASSUME NEW t \in declared
      PROVE  \E h \in seen : t \in Joining(h) /\ s.rels[t].endpoints = EndpointsOf(h, t)
  <2>1. EndpointsOf(g, t) # {} /\ s.rels[t].endpoints = EndpointsOf(g, t)
    OBVIOUS
  <2>2. t \in TypesOf(g)
    BY <2>1 DEF EndpointsOf, TypesOf
  <2> QED
    BY <2>1, <2>2
<1>6. ASSUME NEW t \in declared, NEW o, \A h \in seen : o \in RelsWith(h, t),
             NEW key \in DOMAIN o.props
      PROVE  /\ key \in DOMAIN s.rels[t].properties
             /\ Fits(backend, o.props[key], s.rels[t].properties[key])
  <2>1. o \in RelsWith(p, t)
    BY <1>6
  <2>2. t \in TypeRows(backend, p)
    BY <1>6, <2>1 DEF TypeRows, Owning, TypesOf, RelsWith
  <2>3. s.rels[t].properties = Columns(backend, RelsWith(p, t))
    BY <1>3, <2>2 DEF ReadRels
  <2>4. \A q \in RelsWith(p, t) : \A k \in DOMAIN q.props : q.props[k].list \in BOOLEAN
    BY <1>1, GraphFacts
  <2> QED
    BY <1>6, <2>1, <2>3, <2>4, ColumnsFit
<1>7. /\ \A t \in DOMAIN Finished(s).rels : \E h \in seen :
            t \in Joining(h) /\ Finished(s).rels[t].endpoints = EndpointsOf(h, t)
      /\ \A t \in DOMAIN Finished(s).rels : \A o : (\A h \in seen : o \in RelsWith(h, t)) =>
            \A key \in DOMAIN o.props :
               /\ key \in DOMAIN Finished(s).rels[t].properties
               /\ Fits(backend, o.props[key], Finished(s).rels[t].properties[key])
  BY <1>2, <1>5, <1>6
<1> QED
  BY <1>2, <1>4, <1>7 DEF DescribesRels, Stayed

\* A snapshot that describes a graph whose labels stayed names only these.
LEMMA CompleteAccepted ==
  ASSUME IInv, StaleInv, NEW s, DescribesNodes(s), DescribesRels(s),
         \A g \in seen : LabelsOf(g) = LabelsOf(db)
  PROVE  Accepts(s)
<1>1. backend \in Backends /\ seen \subseteq Graphs[backend]
  BY DEF IInv, TypeOK, StaleInv
<1>2. LabelsOf(db) \subseteq DOMAIN s.nodes
  BY DEF DescribesNodes, Stayed
<1>3. ASSUME NEW t \in DOMAIN s.rels
      PROVE  /\ s.rels[t].endpoints # {}
             /\ \A e \in s.rels[t].endpoints : {e[1], e[2]} \subseteq DOMAIN s.nodes
  <2>1. PICK g \in seen : EndpointsOf(g, t) # {} /\ s.rels[t].endpoints = EndpointsOf(g, t)
    BY DEF DescribesRels
  <2>2. EndpointsOf(g, t) \subseteq LabelsOf(db) \X LabelsOf(db)
    BY <1>1, GraphFacts
  <2> QED
    BY <1>2, <2>1, <2>2
<1> QED
  BY <1>3 DEF Accepts

\* The rows of a query of the dump are in.
LEMMA DeliverDump ==
  ASSUME IInv, DumpInv, Deliver, call.kind = "dump", pc \in {"rollback", "reply"},
         UNCHANGED <<config, world, request, leftover, rows, cut, kept>>
  PROVE  DumpInv'
<1> DEFINE query == todo[1]
<1>1. /\ snapshot' = Collected /\ todo' = Tail(todo) /\ number' = number + 1
      /\ IF todo' = <<>>
         THEN pc' = "idle" /\ answer' = [kind |-> "schema", rows |-> NoRows,
                                         snapshot |-> Finished(snapshot')]
         ELSE pc' = "start" /\ answer' = answer
  BY DEF Deliver
<1>2. /\ todo \in Seq(Queries) /\ Len(todo) > 0 /\ todo[Len(todo)] = "endpoints"
      /\ \A i, j \in 1 .. Len(todo) : todo[i] = todo[j] => i = j
      /\ rows.query # number => backend = "neo4j" /\ query = "labels"
  BY DEF DumpInv, TodoInv, InDump
<1>3. /\ Head(todo) = query /\ todo' \in Seq(Queries) /\ Len(todo') = Len(todo) - 1
      /\ \A i \in 1 .. Len(todo') : todo'[i] = todo[i + 1]
      /\ todo' = <<>> <=> Len(todo) = 1
  <2>1. /\ Head(todo) = query /\ todo' \in Seq(Queries) /\ Len(todo') = Len(todo) - 1
        /\ \A i \in 1 .. Len(todo') : todo'[i] = todo[i + 1]
    BY <1>1, <1>2
  <2>2. todo' = <<>> <=> Len(todo') = 0
    BY <2>1
  <2>3. Len(todo) \in Nat
    BY <1>2
  <2> QED
    BY <2>1, <2>2, <2>3
<1>4. QueriesLeft' = QueriesLeft \ {query}
  <2>1. Len(todo) \in Nat /\ Len(todo') \in Nat
    BY <1>2, <1>3
  <2>2. ASSUME NEW q \in QueriesLeft' PROVE q \in QueriesLeft \ {query}
    <3>1. PICK i \in 1 .. Len(todo') : q = todo'[i]
      BY DEF QueriesLeft
    <3>2. q = todo[i + 1] /\ i + 1 \in 1 .. Len(todo) /\ 1 \in 1 .. Len(todo) /\ i + 1 # 1
      BY <1>3, <2>1, <3>1
    <3> QED
      BY <1>2, <3>2 DEF QueriesLeft
  <2>3. ASSUME NEW q \in QueriesLeft, q # query PROVE q \in QueriesLeft'
    <3>1. PICK i \in 1 .. Len(todo) : q = todo[i]
      BY DEF QueriesLeft
    <3>2. i - 1 \in 1 .. Len(todo') /\ todo'[i - 1] = q
      BY <1>3, <2>1, <2>3, <3>1
    <3> QED
      BY <3>2 DEF QueriesLeft
  <2> QED
    BY <2>2, <2>3
<1>5. /\ backend' = backend /\ db' = db /\ seen' = seen /\ call' = call
      /\ leftover' = NoRows /\ rows' = rows /\ NoRows.query = 0
  BY DEF config, world, request, DumpInv, StaleInv, NoRows
<1>6. StaleInv'
  BY <1>1, <1>5 DEF DumpInv, StaleInv
<1>7. TodoInv'
  <2>1. CASE todo' = <<>>
    BY <1>1, <2>1 DEF TodoInv, InDump
  <2>2. CASE todo' # <<>>
    <3>1. Len(todo') > 0 /\ Len(todo) > 1
      BY <1>2, <1>3, <2>2
    <3>2. todo'[Len(todo')] = "endpoints"
      BY <1>2, <1>3, <3>1
    <3>3. \A i, j \in 1 .. Len(todo') : todo'[i] = todo'[j] => i = j
      BY <1>2, <1>3
    <3> QED
      BY <1>1, <1>3, <1>5, <2>2, <3>1, <3>2, <3>3 DEF TodoInv
  <2> QED
    BY <2>1, <2>2
<1>8. /\ NodesKnown(backend, seen, Collected.nodes, QueriesLeft \ {query})
      /\ RelsKnown(backend, seen, Collected.rels, QueriesLeft \ {query})
  <2>1. /\ NodesKnown(backend, seen, snapshot.nodes, QueriesLeft)
        /\ RelsKnown(backend, seen, snapshot.rels, QueriesLeft)
    BY DEF DumpInv, SnapshotInv, InDump
  <2>2. CASE rows.query = number
    <3>1. rows.of \in seen
      BY <2>2 DEF DumpInv, StaleInv, OwnRows
    <3>2. Collected = [nodes |-> NodesAfter(query, rows.of), rels |-> RelsAfter(query, rows.of)]
      BY <1>3, <2>2 DEF Collected
    <3> QED
      BY <2>1, <3>1, <3>2, CollectsNodes, CollectsRels
  <2>3. CASE rows.query # number
    <3>1. Collected = snapshot /\ backend = "neo4j" /\ query = "labels"
      BY <1>2, <2>3 DEF Collected
    <3> HIDE DEF query
    <3> QED
      BY <2>1, <3>1 DEF NodesKnown, RelsKnown
  <2> QED
    BY <2>2, <2>3
<1>9. SnapshotInv'
  BY <1>1, <1>4, <1>5, <1>8 DEF SnapshotInv
<1>10. DumpsDescribeWhatStays'
  <2>1. CASE todo' # <<>>
    BY <1>1, <2>1 DEF DumpsDescribeWhatStays
  <2>2. CASE todo' = <<>>
    <3>1. query = "endpoints" /\ QueriesLeft \ {query} = {} /\ rows.query = number
      <4>1. Len(todo) = 1
        BY <1>3, <2>2
      <4>2. query = "endpoints" /\ QueriesLeft = {query}
        BY <1>2, <4>1 DEF QueriesLeft
      <4> QED
        BY <1>2, <4>2
    <3>2. rows.of \in seen
      BY <3>1 DEF DumpInv, StaleInv, OwnRows
    <3>3. Collected.rels = RelsAfter(query, rows.of)
      BY <1>3, <3>1 DEF Collected
    <3>4. \A t \in DOMAIN Collected.rels : Collected.rels[t].endpoints = EndpointsOf(rows.of, t)
      BY <3>1, <3>3, CollectsEndpoints DEF DumpInv, SnapshotInv, InDump
    <3> DEFINE s == Finished(Collected)
    <3>5. DescribesRels(s)
      BY <1>8, <3>1, <3>2, <3>4, CompleteRels DEF DumpInv
    <3>6. s.nodes = Collected.nodes
      BY DEF Finished, Collected
    <3>7. DescribesNodes(s)
      BY <1>8, <3>1, <3>6, CompleteNodes DEF DumpInv
    <3>8. (\A g \in seen : LabelsOf(g) = LabelsOf(db)) => Accepts(s)
      BY <3>5, <3>7, CompleteAccepted DEF DumpInv
    <3>9. answer'.snapshot = s
      BY <1>1, <2>2
    <3> HIDE DEF s
    <3>10. DescribesNodes(answer.snapshot)' /\ DescribesRels(answer.snapshot)'
      BY <1>5, <3>5, <3>7, <3>9 DEF DescribesNodes, DescribesRels, Stayed
    <3> QED
      BY <1>5, <3>8, <3>9, <3>10 DEF DumpsDescribeWhatStays
  <2> QED
    BY <2>1, <2>2
<1> QED
  BY <1>6, <1>7, <1>9, <1>10 DEF DumpInv

LEMMA InitDump == ASSUME Init PROVE DumpInv
<1>1. NoRows.query = 0 /\ Probe.kind = "probe"
  BY DEF NoRows, Probe
<1>2. ~ InDump /\ DumpsDescribeWhatStays
  BY <1>1 DEF Init, InDump, DumpsDescribeWhatStays
<1>3. StaleInv
  BY <1>1 DEF Init, StaleInv
<1> QED
  BY <1>2, <1>3 DEF DumpInv, TodoInv, SnapshotInv

\* An error or rows, of a call that returns.
LEMMA ReturnKind ==
  ASSUME NEW kind, kind # "schema", Return(kind)
  PROVE  pc' \in {"idle", "closed"} /\ answer'.kind # "schema"
BY DEF Return

LEMMA OpenDump == ASSUME IInv, DumpInv, Open PROVE DumpInv'
<1>1. /\ UNCHANGED <<backend, db, seen, number, rows, leftover, call>> /\ call = Probe
      /\ pc = "open"
  BY DEF Open, config, world, request, dump, IInv, ErrorInv
<1>2. CASE pc' = "start"
  <2>1. ~ InDump' /\ DumpsDescribeWhatStays'
    BY <1>1, <1>2 DEF InDump, Probe, DumpsDescribeWhatStays
  <2>2. StaleInv'
    BY <1>1, <1>2 DEF DumpInv, StaleInv
  <2> QED
    BY <2>1, <2>2 DEF DumpInv, TodoInv, SnapshotInv
<1>3. CASE Return("unavailable") \/ Return("rows") \/ Return("connection")
  <2>1. pc' \in {"idle", "closed"} /\ answer'.kind # "schema"
    BY <1>3, ReturnKind
  <2> QED
    BY <1>1, <2>1, EndsDump
<1> QED
  BY <1>2, <1>3 DEF Open, IInv, TypeOK

\* A sequence of different names, from a to z.
Listing(q, names, a, z) ==
    /\ q \in Seq(Queries) /\ Len(q) > 0 /\ q[1] = a /\ q[Len(q)] = z
    /\ \A i, j \in 1 .. Len(q) : q[i] = q[j] => i = j
    /\ {q[i] : i \in 1 .. Len(q)} = names

Four(a, b, c, z) == <<a, b, c, z>>
Five(a, b, c, d, z) == <<a, b, c, d, z>>
DistinctFour(a, b, c, z) == a \notin {b, c, z} /\ b \notin {c, z} /\ c # z
DistinctFive(a, b, c, d, z) == a \notin {b, c, d, z} /\ DistinctFour(b, c, d, z)

LEMMA FourListed ==
  ASSUME NEW a, NEW b, NEW c, NEW z, DistinctFour(a, b, c, z), {a, b, c, z} \subseteq Queries
  PROVE  Listing(Four(a, b, c, z), {a, b, c, z}, a, z)
<1> DEFINE q == <<a, b, c, z>>
<1>1. q \in Seq(Queries) /\ Len(q) = 4 /\ q[1] = a /\ q[2] = b /\ q[3] = c /\ q[4] = z
  OBVIOUS
<1> HIDE DEF q
<1>2. \A i \in 1 .. Len(q) : i \in {1, 2, 3, 4}
  BY <1>1
<1>3. {1, 2, 3, 4} \subseteq 1 .. Len(q)
  BY <1>1
<1>4. \A i, j \in 1 .. Len(q) : q[i] = q[j] => i = j
  BY <1>1, <1>2 DEF DistinctFour
<1>5. {q[i] : i \in 1 .. Len(q)} = {a, b, c, z}
  BY <1>1, <1>2, <1>3
<1> QED
  BY <1>1, <1>4, <1>5 DEF q, Four, Listing

LEMMA FiveListed ==
  ASSUME NEW a, NEW b, NEW c, NEW d, NEW z, DistinctFive(a, b, c, d, z),
         {a, b, c, d, z} \subseteq Queries
  PROVE  Listing(Five(a, b, c, d, z), {a, b, c, d, z}, a, z)
<1> DEFINE q == <<a, b, c, d, z>>
<1>1. /\ q \in Seq(Queries) /\ Len(q) = 5
      /\ q[1] = a /\ q[2] = b /\ q[3] = c /\ q[4] = d /\ q[5] = z
  OBVIOUS
<1> HIDE DEF q
<1>2. \A i \in 1 .. Len(q) : i \in {1, 2, 3, 4, 5}
  BY <1>1
<1>3. {1, 2, 3, 4, 5} \subseteq 1 .. Len(q)
  BY <1>1
<1>4. \A i, j \in 1 .. Len(q) : q[i] = q[j] => i = j
  BY <1>1, <1>2 DEF DistinctFive, DistinctFour
<1>5. {q[i] : i \in 1 .. Len(q)} = {a, b, c, d, z}
  BY <1>1, <1>2, <1>3
<1> QED
  BY <1>1, <1>4, <1>5 DEF q, Five, Listing

\* The rows of a call that is no dump are its answer.
LEMMA DeliverRows ==
  ASSUME IInv, DumpInv, Deliver, call.kind # "dump", pc \in {"rollback", "reply"},
         UNCHANGED <<config, world, leftover, rows>>
  PROVE  DumpInv'
<1>1. Return("rows") /\ UNCHANGED <<backend, db, seen, number, rows, leftover>>
  BY DEF Deliver, config, world, dump
<1>2. pc' \in {"idle", "closed"} /\ answer'.kind # "schema"
  BY <1>1, ReturnKind
<1> QED
  BY <1>1, <1>2, EndsDump

\* The queries of the three dumps: the endpoints come last, and only the properties
\* of Neo4j's labels and types are enough to know all of them.
LEMMA DumpStarts ==
  ASSUME NEW b \in Backends
  PROVE  \E names, first :
            /\ Listing(DumpQueries[b], names, first, "endpoints")
            /\ {"node properties", "type properties"} \subseteq names
            /\ b = "neo4j" => first = "labels"
            /\ b # "neo4j" => /\ "labels" \in names \/ "tables" \in names
                              /\ "types" \in names \/ "tables" \in names
<1>1. CASE b = "neo4j"
  <2> DEFINE names == {"labels", "node properties", "types", "type properties", "endpoints"}
  <2>1. names \subseteq Queries
    BY DEF Queries
  <2>2. DistinctFive("labels", "node properties", "types", "type properties", "endpoints")
    BY DEF DistinctFive, DistinctFour
  <2>3. DumpQueries[b] = Five("labels", "node properties", "types", "type properties", "endpoints")
    BY <1>1 DEF DumpQueries, Neo4jDump, Five
  <2>4. Listing(DumpQueries[b], names, "labels", "endpoints")
    BY <2>1, <2>2, <2>3, FiveListed
  <2> QED
    BY <1>1, <2>4
<1>2. CASE b = "falkordb"
  <2> DEFINE names == {"node properties", "labels", "type properties", "types", "endpoints"}
  <2>1. names \subseteq Queries
    BY DEF Queries
  <2>2. DistinctFive("node properties", "labels", "type properties", "types", "endpoints")
    BY DEF DistinctFive, DistinctFour
  <2>3. DumpQueries[b] = Five("node properties", "labels", "type properties", "types", "endpoints")
    BY <1>2 DEF DumpQueries, FalkorDbDump, Five
  <2>4. Listing(DumpQueries[b], names, "node properties", "endpoints")
    BY <2>1, <2>2, <2>3, FiveListed
  <2>5. /\ {"node properties", "type properties"} \subseteq names
        /\ "labels" \in names /\ "types" \in names /\ b # "neo4j"
    BY <1>2
  <2> HIDE DEF names
  <2> QED
    BY <2>4, <2>5
<1>3. CASE b = "ladybug"
  <2> DEFINE names == {"tables", "node properties", "type properties", "endpoints"}
  <2>1. names \subseteq Queries
    BY DEF Queries
  <2>2. DistinctFour("tables", "node properties", "type properties", "endpoints")
    BY DEF DistinctFour
  <2>3. DumpQueries[b] = Four("tables", "node properties", "type properties", "endpoints")
    BY <1>3 DEF DumpQueries, LadybugDump, Four
  <2>4. Listing(DumpQueries[b], names, "tables", "endpoints")
    BY <2>1, <2>2, <2>3, FourListed
  <2>5. /\ {"node properties", "type properties"} \subseteq names
        /\ "tables" \in names /\ b # "neo4j"
    BY <1>3
  <2> HIDE DEF names
  <2> QED
    BY <2>4, <2>5
<1> QED
  BY <1>1, <1>2, <1>3 DEF Backends

LEMMA BeginDump == ASSUME IInv, DumpInv, CallRun \/ CallSchema PROVE DumpInv'
<1>1. PICK c \in Run \cup {Dump} : Begin(c)
  BY DEF CallRun, CallSchema
<1>2. /\ pc = "idle" /\ pc' = "start" /\ call' = c /\ number' = number + 1
      /\ seen' = {db} /\ snapshot' = Empty /\ rows' = NoRows
      /\ todo' = IF c.kind = "dump" THEN DumpQueries[backend] ELSE <<>>
      /\ UNCHANGED <<backend, db, leftover>> /\ backend \in Backends
  BY <1>1 DEF Begin, config, IInv, TypeOK
<1>3. StaleInv'
  BY <1>2 DEF IInv, RowsInv, DumpInv, StaleInv, NoRows
<1>4. DumpsDescribeWhatStays'
  BY <1>2 DEF DumpsDescribeWhatStays
<1>5. CASE c.kind # "dump"
  BY <1>2, <1>3, <1>4, <1>5 DEF DumpInv, TodoInv, SnapshotInv, InDump
<1>6. CASE c.kind = "dump"
  <2>1. todo' = DumpQueries[backend]
    BY <1>2, <1>6
  <2>2. PICK names, first :
          /\ Listing(todo', names, first, "endpoints")
          /\ {"node properties", "type properties"} \subseteq names
          /\ backend = "neo4j" => first = "labels"
          /\ backend # "neo4j" => /\ "labels" \in names \/ "tables" \in names
                                  /\ "types" \in names \/ "tables" \in names
    BY <1>2, <2>1, DumpStarts
  <2>3. TodoInv'
    BY <1>2, <2>2 DEF TodoInv, DumpInv, StaleInv, Listing
  <2>4. SnapshotInv'
    <3>1. QueriesLeft' = names
      BY <2>2 DEF QueriesLeft, Listing
    <3>2. snapshot'.nodes = <<>> /\ snapshot'.rels = <<>> /\ DOMAIN <<>> = {}
      BY <1>2 DEF Empty
    <3>3. NodesKnown(backend, {db}, <<>>, names)
      BY <2>2, <3>2 DEF NodesKnown
    <3>4. RelsKnown(backend, {db}, <<>>, names)
      BY <2>2, <3>2 DEF RelsKnown
    <3> QED
      BY <1>2, <3>1, <3>2, <3>3, <3>4 DEF SnapshotInv
  <2> QED
    BY <1>3, <1>4, <2>3, <2>4 DEF DumpInv
<1> QED
  BY <1>5, <1>6

\* After a write the dump is of one graph more, of which it promises less.
LEMMA OthersDump == ASSUME IInv, DumpInv, OthersWrite PROVE DumpInv'
<1>1. /\ UNCHANGED <<backend, number, rows, leftover, pc, call, todo, snapshot, answer>>
      /\ db' \in Graphs[backend] /\ seen' = seen \cup {db'} /\ db \in seen
  BY DEF OthersWrite, config, request, dump, IInv, RowsInv
<1>2. StaleInv'
  BY <1>1 DEF DumpInv, StaleInv, OwnRows
<1>3. TodoInv'
  BY <1>1 DEF DumpInv, TodoInv, InDump
<1>4. SnapshotInv'
  <2> SUFFICES ASSUME InDump
               PROVE  /\ NodesKnown(backend, seen', snapshot.nodes, QueriesLeft)
                      /\ RelsKnown(backend, seen', snapshot.rels, QueriesLeft)
    BY <1>1 DEF SnapshotInv, InDump, QueriesLeft
  <2>1. /\ NodesKnown(backend, seen, snapshot.nodes, QueriesLeft)
        /\ RelsKnown(backend, seen, snapshot.rels, QueriesLeft)
    BY DEF DumpInv, SnapshotInv
  <2>2. seen \subseteq seen'
    BY <1>1
  <2> QED
    BY <2>1, <2>2, KnownOfMore
<1>5. DumpsDescribeWhatStays'
  <2> SUFFICES ASSUME answer.kind = "schema", pc = "idle"
               PROVE  /\ DescribesNodes(answer.snapshot)' /\ DescribesRels(answer.snapshot)'
                      /\ (\A g \in seen' : LabelsOf(g) = LabelsOf(db')) =>
                            Accepts(answer.snapshot)
    BY <1>1 DEF DumpsDescribeWhatStays
  <2>1. /\ DescribesNodes(answer.snapshot) /\ DescribesRels(answer.snapshot)
        /\ (\A g \in seen : LabelsOf(g) = LabelsOf(db)) => Accepts(answer.snapshot)
    BY DEF DumpInv, DumpsDescribeWhatStays
  <2>2. DescribesNodes(answer.snapshot)'
    BY <1>1, <2>1 DEF DescribesNodes, Stayed
  <2>3. DescribesRels(answer.snapshot)'
    BY <1>1, <2>1 DEF DescribesRels, Stayed
  <2>4. (\A g \in seen' : LabelsOf(g) = LabelsOf(db')) =>
           \A g \in seen : LabelsOf(g) = LabelsOf(db)
    BY <1>1
  <2> QED
    BY <2>1, <2>2, <2>3, <2>4
<1> QED
  BY <1>2, <1>3, <1>4, <1>5 DEF DumpInv

\* A call on Neo4j goes on, ends, or hands its rows over.
LEMMA Neo4jDumpInv ==
  ASSUME IInv, DumpInv, StartTxn \/ Execute \/ Stream \/ Rollback \/ Timeout \/ Reopen
  PROVE  DumpInv'
<1>1. /\ backend = "neo4j" /\ UNCHANGED <<backend, db, seen, call>>
      /\ pc \in {"start", "execute", "stream", "rollback", "reopen"}
  BY DEF StartTxn, Execute, Stream, Rollback, Timeout, Reopen, InTransaction, IInv, TypeOK,
         config, world, request
<1>2. CASE StartTxn
  <2>1. pc = "start" /\ UNCHANGED <<number, todo, snapshot, leftover, rows>>
    BY <1>2 DEF StartTxn, dump
  <2>2. CASE pc' = "execute"
    BY <1>1, <2>1, <2>2, QueryGoesOn
  <2>3. CASE Return("connection")
    BY <1>1, <2>1, <2>3, ReturnKind, EndsDump
  <2> QED
    BY <1>2, <2>2, <2>3 DEF StartTxn
<1>3. CASE Execute
  <2>1. pc = "execute" /\ UNCHANGED <<number, todo, snapshot>>
    BY <1>3 DEF Execute, dump
  <2>2. CASE /\ rows' = IF leftover = NoRows THEN RowsRead ELSE leftover
             /\ leftover' = NoRows /\ pc' = "stream"
    <3>1. CASE leftover = NoRows
      <4>1. rows'.query = number /\ OwnRows(rows)'
        BY <1>1, <2>1, <2>2, <3>1 DEF OwnRows, RowsRead, IInv, RowsInv
      <4> QED
        BY <1>1, <2>1, <2>2, <4>1, QueryGoesOn
    <3>2. CASE leftover # NoRows
      BY <1>1, <2>1, <2>2, <3>2, QueryGoesOn
    <3> QED
      BY <3>1, <3>2
  <2>3. CASE Return("query") /\ UNCHANGED <<rows, leftover>>
    BY <1>1, <2>1, <2>3, ReturnKind, EndsDump
  <2> QED
    BY <1>3, <2>2, <2>3 DEF Execute
<1>4. CASE Stream
  <2>1. /\ pc = "stream" /\ UNCHANGED <<number, todo, snapshot, rows>>
        /\ leftover' = leftover \/ leftover' = rows
    BY <1>4 DEF Stream, dump
  <2>2. CASE pc' = "rollback" /\ UNCHANGED leftover
    BY <1>1, <2>1, <2>2, QueryGoesOn
  <2>3. CASE Return("query")
    BY <1>1, <2>1, <2>3, ReturnKind, EndsDump
  <2> QED
    BY <1>4, <2>2, <2>3 DEF Stream
<1>5. CASE Rollback
  <2>1. pc = "rollback" /\ UNCHANGED <<config, world, request, leftover, rows, kept>>
    BY <1>5 DEF Rollback
  <2>2. CASE Deliver /\ UNCHANGED cut
    BY <2>1, <2>2, DeliverDump, DeliverRows
  <2>3. CASE Return("connection") /\ UNCHANGED dump
    BY <1>1, <2>1, <2>3, ReturnKind, EndsDump DEF dump
  <2> QED
    BY <1>5, <2>2, <2>3 DEF Rollback
<1>6. CASE Timeout
  <2>1. /\ pc' = "reopen" /\ UNCHANGED <<number, rows>>
        /\ leftover' = leftover \/ leftover' = rows
    BY <1>6 DEF Timeout, dump
  <2> QED
    BY <1>1, <2>1, EndsDump
<1>7. CASE Reopen
  <2>1. /\ UNCHANGED <<number, rows>>
        /\ leftover' = leftover \/ leftover' = NoRows
        /\ Return("timeout") \/ Return("connection")
    BY <1>7 DEF Reopen, dump
  <2>2. pc' \in {"idle", "closed"} /\ answer'.kind # "schema"
    BY <2>1, ReturnKind
  <2> QED
    BY <1>1, <2>1, <2>2, EndsDump
<1> QED
  BY <1>2, <1>3, <1>4, <1>5, <1>6, <1>7

LEMMA FalkorDbDumpInv == ASSUME IInv, DumpInv, ReadOnlyQuery \/ ReadReply PROVE DumpInv'
<1>1. CASE ReadReply
  BY <1>1, DeliverDump, DeliverRows DEF ReadReply
<1>2. CASE ReadOnlyQuery
  <2>1. /\ backend = "falkordb" /\ pc = "start"
        /\ UNCHANGED <<backend, db, seen, call, number, todo, snapshot, leftover>>
    BY <1>2 DEF ReadOnlyQuery, config, world, request, dump
  <2>2. CASE /\ rows' \in {RowsRead} \cup
                   IF CappedLimit > U32Max THEN {[RowsRead EXCEPT !.whole = FALSE]} ELSE {}
             /\ pc' = "reply"
    <3>1. ~ (CappedLimit > U32Max)
      <4>1. call.limit \in {Few, I64Max}
        BY CallFacts DEF IInv, TypeOK
      <4> QED
        BY <4>1 DEF CappedLimit, I32Max, U32Max, I64Max, Few
    <3>2. rows' = RowsRead
      BY <2>2, <3>1
    <3>3. rows'.query = number /\ OwnRows(rows)'
      BY <2>1, <3>2 DEF OwnRows, RowsRead, IInv, RowsInv
    <3>4. leftover = NoRows
      BY <2>1 DEF DumpInv, StaleInv
    <3> QED
      BY <2>1, <2>2, <3>3, <3>4, QueryGoesOn
  <2>3. CASE UNCHANGED rows /\ \E kind \in {"timeout", "connection", "query"} : Return(kind)
    <3>1. pc' \in {"idle", "closed"} /\ answer'.kind # "schema"
      BY <2>3, ReturnKind
    <3> QED
      BY <2>1, <2>3, <3>1, EndsDump
  <2> QED
    BY <1>2, <2>2, <2>3 DEF ReadOnlyQuery, FalkorDbError
<1> QED
  BY <1>1, <1>2

LEMMA LadybugDumpInv == ASSUME IInv, DumpInv, QueryLadybug \/ ReadResult PROVE DumpInv'
<1>1. CASE ReadResult
  BY <1>1, DeliverDump, DeliverRows DEF ReadResult
<1>2. CASE QueryLadybug
  <2>1. /\ backend = "ladybug" /\ pc = "start"
        /\ UNCHANGED <<backend, db, seen, call, number, todo, snapshot, leftover>>
    BY <1>2 DEF QueryLadybug, config, world, request, dump
  <2>2. CASE rows' = RowsRead /\ pc' = "reply"
    <3>1. rows'.query = number /\ OwnRows(rows)'
      BY <2>1, <2>2 DEF OwnRows, RowsRead, IInv, RowsInv
    <3>2. leftover = NoRows
      BY <2>1 DEF DumpInv, StaleInv
    <3> QED
      BY <2>1, <2>2, <3>1, <3>2, QueryGoesOn
  <2>3. CASE UNCHANGED rows /\ \E kind \in {"timeout", "connection", "query"} : Return(kind)
    <3>1. pc' \in {"idle", "closed"} /\ answer'.kind # "schema"
      BY <2>3, ReturnKind
    <3> QED
      BY <2>1, <2>3, <3>1, EndsDump
  <2> QED
    BY <1>2, <2>2, <2>3 DEF QueryLadybug, LadybugError
<1> QED
  BY <1>1, <1>2

LEMMA StepDump == ASSUME IInv, DumpInv, [Next]_vars PROVE DumpInv'
<1>1. CASE UNCHANGED vars
  <2>1. UNCHANGED <<backend, db, seen, number, leftover, rows, pc, call, todo, snapshot, answer>>
    BY <1>1 DEF vars, config, world, request, dump
  <2>2. StaleInv' /\ TodoInv'
    BY <2>1 DEF DumpInv, StaleInv, TodoInv, OwnRows, InDump
  <2>3. SnapshotInv'
    BY <2>1 DEF DumpInv, SnapshotInv, InDump, QueriesLeft
  <2>4. /\ DescribesNodes(answer.snapshot)' <=> DescribesNodes(answer.snapshot)
        /\ DescribesRels(answer.snapshot)' <=> DescribesRels(answer.snapshot)
    BY <2>1 DEF DescribesNodes, DescribesRels, Stayed
  <2>5. DumpsDescribeWhatStays'
    BY <2>1, <2>4 DEF DumpInv, DumpsDescribeWhatStays
  <2> QED
    BY <2>2, <2>3, <2>5 DEF DumpInv
<1>2. CASE Next
  BY <1>2, OpenDump, BeginDump, OthersDump, Neo4jDumpInv, FalkorDbDumpInv, LadybugDumpInv
     DEF Next
<1> QED
  BY <1>1, <1>2

\* A schema dump describes what the graph held during all of it, and nothing it never
\* held, for any graphs, although other clients write between its queries, an earlier call
\* may have left rows on the connections, and on any backend.
THEOREM DumpsDescribe == Spec => []DumpsDescribeWhatStays
<1>1. Init => DumpInv
  BY InitDump
<1>2. IInv /\ DumpInv /\ [Next]_vars => DumpInv'
  BY StepDump
<1>3. DumpInv => DumpsDescribeWhatStays
  BY DEF DumpInv
<1> QED
  BY <1>1, <1>2, <1>3, Invariance, PTL DEF Spec
=============================================================================
