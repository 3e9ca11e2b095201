--------------------------- MODULE DatabaseWorker ---------------------------
(***************************************************************************)
(* The database handle of crates/s2c-runner/src/worker.rs.  An executor is *)
(* not Send: a worker thread owns it and serves jobs from a channel, one   *)
(* at a time.  Any number of threads share the handle: they submit jobs    *)
(* (and wait for the reply, or leave a callback), and they close it.  The  *)
(* owner of the handle drops it once nobody borrows it any more.           *)
(*                                                                         *)
(* One action is one atomic step of one thread: a critical section of the  *)
(* sender mutex is a single action because nothing in it blocks; the       *)
(* thread mutex is held across a join, so taking it and leaving it are two *)
(* actions.  What a job does (ValidateRun) is one step, Answer or Panic.   *)
(***************************************************************************)
EXTENDS Naturals, Sequences

CONSTANTS BlockingCalls,  \* calls that wait for their reply (validate_blocking)
          CallbackCalls,  \* calls that leave a callback (validate, schema)
          Closers,        \* threads that call close
          Owner,          \* the thread that drops the handle
          NoCall          \* "the worker thread runs no job"

Calls == BlockingCalls \cup CallbackCalls
CloseThreads == Closers \cup {Owner}

ASSUME CallsAssumption == /\ BlockingCalls \cap CallbackCalls = {}
                          /\ NoCall \notin Calls
                          /\ Owner \notin Closers

VARIABLES
    handle,    \* the DatabaseWorker value: being spawned, usable, dropped
    ready,     \* the one-shot channel on which spawn waits
    sender,    \* self.sender, an Option
    jobs,      \* the jobs channel: calls sent and not received, oldest first
    worker,    \* where the worker thread is
    current,   \* the call whose job the worker thread runs
    result,    \* what joining the worker thread returns
    thread,    \* self.thread, an Option
    call,      \* where each calling thread is
    closer,    \* where each closing thread is
    reply,     \* what became of each call's reply callback
    accepted   \* history: the calls in the order their jobs were sent

spawnVars == <<handle, ready>>
workerVars == <<worker, current, result>>
vars == <<spawnVars, sender, jobs, workerVars, thread, call, closer, reply,
          accepted>>

WorkerPhase == {"opening",     \* in open()
                "returning",   \* open failed: the thread is about to end
                "serving",     \* in recv
                "running",     \* in run
                "unwinding",   \* run panicked: the receiver is still alive
                "discarding",  \* dropping the receiver and the queued jobs
                "closing",     \* dropping the executor, which closes the database
                "exited"}

Init ==
    /\ handle = "opening"
    /\ ready = "empty"
    /\ sender = "some"
    /\ jobs = <<>>
    /\ worker = "opening"
    /\ current = NoCall
    /\ result = "ok"
    /\ thread = "some"
    /\ call = [c \in Calls |-> "idle"]
    /\ closer = [k \in CloseThreads |-> "idle"]
    /\ reply = [c \in Calls |-> "none"]
    /\ accepted = <<>>

-----------------------------------------------------------------------------
(* spawn: the worker thread opens the database, the opener waits for it.   *)

OpenSucceeds ==
    /\ worker = "opening"
    /\ worker' = "serving"
    /\ ready' = "ok"
    /\ UNCHANGED <<handle, sender, jobs, current, result, thread, call,
                   closer, reply, accepted>>

OpenFails ==
    /\ worker = "opening"
    /\ worker' = "returning"
    /\ \/ ready' = "error" /\ UNCHANGED result
       \/ ready' = "hungup" /\ result' = "panicked"
    /\ UNCHANGED <<handle, sender, jobs, current, thread, call, closer, reply,
                   accepted>>

ThreadReturns ==
    /\ worker = "returning"
    /\ worker' = "exited"
    /\ UNCHANGED <<spawnVars, sender, jobs, current, result, thread, call,
                   closer, reply, accepted>>

SpawnReturns ==
    /\ handle = "opening"
    /\ ready = "ok"
    /\ handle' = "open"
    /\ UNCHANGED <<ready, sender, jobs, workerVars, thread, call, closer, reply,
                   accepted>>

\* The opener joins the thread before it reports the error.
SpawnFails ==
    /\ handle = "opening"
    /\ ready \in {"error", "hungup"}
    /\ worker = "exited"
    /\ handle' = "failed"
    /\ sender' = "none"
    /\ thread' = "none"
    /\ UNCHANGED <<ready, jobs, workerVars, call, closer, reply, accepted>>

-----------------------------------------------------------------------------
(* submit, and the blocking calls built on it.                             *)

ReceiverAlive == worker \in {"serving", "running", "unwinding"}

\* A blocking call waits for its reply; a callback call is done once its job
\* is sent or its callback has been called.
AfterSubmit(c) == IF c \in BlockingCalls THEN "waiting" ELSE "returned"

BeginCall(c) ==
    /\ handle = "open"
    /\ call[c] = "idle"
    /\ call' = [call EXCEPT ![c] = "submitting"]
    /\ UNCHANGED <<spawnVars, sender, jobs, workerVars, thread, closer, reply,
                   accepted>>

\* Mutant: submit goes on to fail a job that it has sent.
SendWithoutReturn(c) ==
    /\ call[c] = "submitting"
    /\ sender = "some"
    /\ ReceiverAlive
    /\ jobs' = Append(jobs, c)
    /\ accepted' = Append(accepted, c)
    /\ call' = [call EXCEPT ![c] = "failing"]
    /\ UNCHANGED <<spawnVars, sender, workerVars, thread, closer, reply>>

Send(c) ==
    /\ call[c] = "submitting"
    /\ sender = "some"
    /\ ReceiverAlive
    /\ jobs' = Append(jobs, c)
    /\ accepted' = Append(accepted, c)
    /\ call' = [call EXCEPT ![c] = AfterSubmit(c)]
    /\ UNCHANGED <<spawnVars, sender, workerVars, thread, closer, reply>>

\* Mutant: a job is refused while the worker thread is busy with another.
JobComesBackWhenBusy(c) ==
    /\ call[c] = "submitting"
    /\ sender = "none" \/ worker # "serving"
    /\ call' = [call EXCEPT ![c] = "failing"]
    /\ UNCHANGED <<spawnVars, sender, jobs, workerVars, thread, closer, reply,
                   accepted>>

\* The handle is closed, or the receiver is gone: the job comes back.
JobComesBack(c) ==
    /\ call[c] = "submitting"
    /\ sender = "none" \/ ~ ReceiverAlive
    /\ call' = [call EXCEPT ![c] = "failing"]
    /\ UNCHANGED <<spawnVars, sender, jobs, workerVars, thread, closer, reply,
                   accepted>>

\* Job::fail calls the reply, on this thread and after the lock is released.
FailJob(c) ==
    /\ call[c] = "failing"
    /\ reply' = [reply EXCEPT ![c] = "refused"]
    /\ call' = [call EXCEPT ![c] = AfterSubmit(c)]
    /\ UNCHANGED <<spawnVars, sender, jobs, workerVars, thread, closer,
                   accepted>>

\* recv on the reply channel: a reply, or the end of a dropped one, which
\* becomes WorkerError::Closed.
ReceiveReply(c) ==
    /\ call[c] = "waiting"
    /\ reply[c] # "none"
    /\ call' = [call EXCEPT ![c] = "returned"]
    /\ UNCHANGED <<spawnVars, sender, jobs, workerVars, thread, closer, reply,
                   accepted>>

-----------------------------------------------------------------------------
(* close, and drop, which calls it.                                        *)

InMethod == {c \in Calls : call[c] \in {"submitting", "failing", "waiting"}}
InClose == {k \in CloseThreads : closer[k] \in {"taking", "locking", "joining"}}

BeginClose(k) ==
    /\ k \in Closers
    /\ handle = "open"
    /\ closer[k] = "idle"
    /\ closer' = [closer EXCEPT ![k] = "taking"]
    /\ UNCHANGED <<spawnVars, sender, jobs, workerVars, thread, call, reply,
                   accepted>>

\* drop takes the handle by exclusive reference: no thread is in a method.
BeginDrop ==
    /\ handle = "open"
    /\ InMethod = {}
    /\ InClose = {}
    /\ handle' = "dropped"
    /\ closer' = [closer EXCEPT ![Owner] = "taking"]
    /\ UNCHANGED <<ready, sender, jobs, workerVars, thread, call, reply,
                   accepted>>

TakeSender(k) ==
    /\ closer[k] = "taking"
    /\ sender' = "none"
    /\ closer' = [closer EXCEPT ![k] = "locking"]
    /\ UNCHANGED <<spawnVars, jobs, workerVars, thread, call, reply, accepted>>

\* Mutant: the guard of the thread mutex is released before the join.
ThreadLockReleasedEarly == TRUE

\* The guard of the thread mutex lives until the end of the `if let`: a thread
\* that joins still holds it.
ThreadLockFree == \A k \in CloseThreads : closer[k] # "joining"

TakeThread(k) ==
    /\ closer[k] = "locking"
    /\ ThreadLockFree
    /\ closer' = [closer EXCEPT ![k] = IF thread = "some" THEN "joining" ELSE "returned"]
    /\ thread' = "none"
    /\ UNCHANGED <<spawnVars, sender, jobs, workerVars, call, reply, accepted>>

JoinThread(k) ==
    /\ closer[k] = "joining"
    /\ worker = "exited"
    /\ closer' = [closer EXCEPT ![k] = "returned"]
    /\ UNCHANGED <<spawnVars, sender, jobs, workerVars, thread, call, reply,
                   accepted>>

-----------------------------------------------------------------------------
(* The worker thread.                                                      *)

TakeJob ==
    /\ worker = "serving"
    /\ jobs # <<>>
    /\ worker' = "running"
    /\ current' = Head(jobs)
    /\ jobs' = Tail(jobs)
    /\ UNCHANGED <<spawnVars, sender, result, thread, call, closer, reply,
                   accepted>>

Answer ==
    /\ worker = "running"
    /\ worker' = "serving"
    /\ reply' = [reply EXCEPT ![current] = "answered"]
    /\ current' = NoCall
    /\ UNCHANGED <<spawnVars, sender, jobs, result, thread, call, closer,
                   accepted>>

\* Mutant: the panic is caught and the reply forgotten with its job.
PanicForgetsReply ==
    /\ worker = "running"
    /\ worker' = "unwinding"
    /\ result' = "panicked"
    /\ current' = NoCall
    /\ UNCHANGED <<spawnVars, sender, jobs, thread, call, closer, reply, accepted>>

\* The executor or the compiler panics: the reply is dropped, not called.
Panic ==
    /\ worker = "running"
    /\ worker' = "unwinding"
    /\ result' = "panicked"
    /\ reply' = [reply EXCEPT ![current] = "dropped"]
    /\ current' = NoCall
    /\ UNCHANGED <<spawnVars, sender, jobs, thread, call, closer, accepted>>

DropReceiver ==
    /\ worker = "unwinding"
    /\ worker' = "discarding"
    /\ UNCHANGED <<spawnVars, sender, jobs, current, result, thread, call,
                   closer, reply, accepted>>

DiscardJob ==
    /\ worker = "discarding"
    /\ jobs # <<>>
    /\ reply' = [reply EXCEPT ![Head(jobs)] = "dropped"]
    /\ jobs' = Tail(jobs)
    /\ UNCHANGED <<spawnVars, sender, workerVars, thread, call, closer,
                   accepted>>

\* Mutant: the loop ends as soon as the handle is closed, jobs queued or not.
StopServingAtOnce ==
    \/ /\ worker = "serving"
       /\ sender = "none"
       /\ worker' = "discarding"
       /\ UNCHANGED <<spawnVars, sender, jobs, current, result, thread, call,
                      closer, reply, accepted>>
    \/ /\ worker = "discarding"
       /\ jobs = <<>>
       /\ worker' = "closing"
       /\ UNCHANGED <<spawnVars, sender, jobs, current, result, thread, call,
                      closer, reply, accepted>>

\* The loop over the jobs ends when no sender is left and the channel is empty.
StopServing ==
    /\ \/ worker = "serving" /\ sender = "none"
       \/ worker = "discarding"
    /\ jobs = <<>>
    /\ worker' = "closing"
    /\ UNCHANGED <<spawnVars, sender, jobs, current, result, thread, call,
                   closer, reply, accepted>>

CloseDatabase ==
    /\ worker = "closing"
    /\ worker' = "exited"
    /\ UNCHANGED <<spawnVars, sender, jobs, current, result, thread, call,
                   closer, reply, accepted>>

-----------------------------------------------------------------------------
CallStep(c) == Send(c) \/ JobComesBack(c) \/ FailJob(c) \/ ReceiveReply(c)
CloseStep(k) == TakeSender(k) \/ TakeThread(k) \/ JoinThread(k)
SpawnStep == OpenSucceeds \/ OpenFails \/ SpawnReturns \/ SpawnFails
WorkerStep == \/ TakeJob \/ Answer \/ Panic
              \/ DropReceiver \/ DiscardJob \/ StopServing
              \/ CloseDatabase \/ ThreadReturns

Next ==
    \/ SpawnStep
    \/ WorkerStep
    \/ \E c \in Calls : BeginCall(c) \/ CallStep(c)
    \/ \E k \in CloseThreads : BeginClose(k) \/ CloseStep(k)
    \/ BeginDrop

\* The scheduler runs every thread that can run, and every job ends: a query
\* returns, times out or fails.  Nobody has to make a call, close or drop.
Fairness ==
    /\ WF_vars(SpawnStep)
    /\ WF_vars(WorkerStep)
    /\ \A c \in Calls : WF_vars(CallStep(c))
    /\ \A k \in CloseThreads : WF_vars(CloseStep(k))

SafeSpec == Init /\ [][Next]_vars

Spec == SafeSpec /\ Fairness

-----------------------------------------------------------------------------
(* Properties.                                                             *)

\* Every variable keeps the type its Rust field or thread state gives it.
TypeOK ==
    /\ handle \in {"opening", "open", "failed", "dropped"}
    /\ ready \in {"empty", "ok", "error", "hungup"}
    /\ sender \in {"some", "none"}
    /\ jobs \in Seq(Calls)
    /\ worker \in WorkerPhase
    /\ current \in Calls \cup {NoCall}
    /\ (current = NoCall) <=> (worker # "running")
    /\ result \in {"ok", "panicked"}
    /\ thread \in {"some", "none"}
    /\ call \in [Calls -> {"idle", "submitting", "failing", "waiting", "returned"}]
    /\ closer \in [CloseThreads -> {"idle", "taking", "locking", "joining", "returned"}]
    /\ reply \in [Calls -> {"none", "answered", "refused", "dropped"}]
    /\ accepted \in Seq(Calls)

\* close "lets queued jobs finish and closes the database" (worker.rs:156): when
\* any close has returned, a second one that raced with the first included, the
\* worker thread is gone, the database closed, and no accepted job is left.
CloseWaitsForDatabase ==
    \A k \in CloseThreads : closer[k] = "returned" =>
        /\ worker = "exited"
        /\ \A i \in DOMAIN accepted : reply[accepted[i]] # "none"

\* A job that was accepted runs and is answered, whenever the handle is closed;
\* only a panic on the worker thread loses it.
AcceptedJobsAreAnswered ==
    \A c \in Calls : reply[c] = "dropped" => result = "panicked"

\* Jobs are served in the order in which they were accepted: none has its reply
\* before an earlier one has.
ServedInOrder ==
    \A i, j \in DOMAIN accepted :
        i < j /\ reply[accepted[j]] # "none" => reply[accepted[i]] # "none"

\* A reply is called once at most, and a job that came back to its caller was
\* never run: what became of a reply is final.
ReplyIsFinal ==
    [][\A c \in Calls : reply[c] # "none" => reply'[c] = reply[c]]_vars

\* No job is accepted once some close has stopped the handle, whichever thread
\* submits it and however far that close is.
NothingAcceptedAfterClose ==
    [][accepted' # accepted =>
          \A k \in CloseThreads : closer[k] \in {"idle", "taking"}]_vars

\* Every call comes back to its caller and its reply settles (called, or dropped
\* with the job), in a race with close, with drop or with a panic of the worker
\* thread.
EveryCallReturns ==
    \A c \in Calls :
        call[c] = "submitting" ~> call[c] = "returned" /\ reply[c] # "none"

\* spawn comes back with a handle or an error, a panic of open included, and so
\* does every close, and the drop.
OpenAndCloseReturn ==
    /\ <>(handle # "opening")
    /\ \A k \in CloseThreads : closer[k] = "taking" ~> closer[k] = "returned"

\* What became of a call is final: no reply is called twice, no refused job is run, and
\* a handle once stopped stays closed, with several threads submitting and closing.
AnswersAreFinal == ReplyIsFinal /\ NothingAcceptedAfterClose

\* Everything the handle starts comes back: open, every call and every close, in any
\* race with close, drop or a panic of the worker thread.
EverythingReturns == EveryCallReturns /\ OpenAndCloseReturn

-----------------------------------------------------------------------------
(* The promise of DatabaseHandle.                                          *)

StatusOf(c) ==
    CASE reply[c] = "answered" -> "answered"
      [] reply[c] \in {"refused", "dropped"} -> "closed"
      [] reply[c] = "none" /\ current = c -> "running"
      [] reply[c] = "none" /\ current # c /\ call[c] \in {"waiting", "returned"}
            -> "accepted"
      [] reply[c] = "none" /\ current # c /\ call[c] \in {"submitting", "failing"}
            -> "requested"
      [] OTHER -> "idle"

ServiceState ==
    CASE handle = "opening" -> "opening"
      [] handle = "failed" -> "failed"
      [] handle \notin {"opening", "failed"} /\ worker = "exited" -> "closed"
      [] handle \notin {"opening", "failed"} /\ worker # "exited" /\ result = "panicked"
            -> "crashed"
      [] OTHER -> IF sender = "some" THEN "open" ELSE "closing"

ClosingState(k) ==
    IF closer[k] \in {"taking", "locking", "joining"} THEN "closing" ELSE closer[k]

Handle == INSTANCE DatabaseHandle
    WITH status <- [c \in Calls |-> StatusOf(c)],
         service <- ServiceState,
         closing <- [k \in CloseThreads |-> ClosingState(k)]

\* The worker thread, its channel and its mutexes implement a serialized handle.
ImplementsHandle == Handle!Spec
=============================================================================
