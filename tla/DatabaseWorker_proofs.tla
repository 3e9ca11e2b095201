----------------------- MODULE DatabaseWorker_proofs -----------------------
(***************************************************************************)
(* Proofs about DatabaseWorker, for any sets of calls and closing threads, *)
(* and about the FrontEnds that hand it their jobs, for any request.       *)
(***************************************************************************)
EXTENDS DatabaseWorker, FrontEnds, FiniteSetTheorems, NaturalsInduction,
        WellFoundedInduction, TLAPS

-----------------------------------------------------------------------------
(* The inductive invariant.                                                *)

\* Nobody uses a handle that was not handed out.
HandleInv ==
    handle \in {"opening", "failed"} =>
        /\ \A c \in Calls : call[c] = "idle"
        /\ \A k \in CloseThreads : closer[k] = "idle"

\* The JoinHandle is taken once; until the worker thread has ended, the thread
\* that took it still holds the thread mutex.
ThreadInv ==
    /\ handle = "opening" => thread = "some"
    /\ handle = "failed" => worker = "exited"
    /\ \A k \in CloseThreads :
          /\ closer[k] = "joining" => thread = "none"
          /\ closer[k] = "returned" => worker = "exited" /\ thread = "none"
          /\ closer[k] \in {"locking", "joining", "returned"} => sender = "none"
    /\ thread = "none" => \/ worker = "exited"
                   \/ \E k \in CloseThreads : closer[k] = "joining"

\* A dropped receiver leaves no job, and only a panic drops it early.
ReceiverInv ==
    /\ worker \in {"opening", "returning", "closing", "exited"} => jobs = <<>>
    /\ worker \in {"unwinding", "discarding"} => result = "panicked"
    /\ \A c \in Calls : reply[c] = "dropped" => result = "panicked"

Served == Len(accepted) - Len(jobs)

\* The queue is what is left of the accepted jobs; those before it have their
\* reply, but for the one being run.
QueueInv ==
    /\ Served \in Nat
    /\ \A i \in 1 .. Len(jobs) : jobs[i] = accepted[Served + i]
    /\ \A i \in 1 .. Len(accepted) :
          /\ i > Served => reply[accepted[i]] = "none"
          /\ i < Served => reply[accepted[i]] # "none"
    /\ current = NoCall /\ Served > 0 => reply[accepted[Served]] # "none"
    /\ current # NoCall => /\ Served > 0
                           /\ accepted[Served] = current
                           /\ reply[current] = "none"

\* A call is accepted once, and while it is being submitted nobody else has it.
CallInv ==
    /\ \A c \in Calls : call[c] \in {"idle", "submitting", "failing"} =>
          /\ reply[c] = "none"
          /\ \A i \in 1 .. Len(accepted) : accepted[i] # c
    /\ \A i, j \in 1 .. Len(accepted) : accepted[i] = accepted[j] => i = j
    /\ \A c \in Calls : reply[c] = "refused" =>
          \A i \in 1 .. Len(accepted) : accepted[i] # c

\* What the handle shows of the worker thread: it is handed out once the thread
\* serves; the thread ends its loop only on a closed or a panicked handle; a job
\* comes back only then; and what a caller waits for is in the queue or served.
ServiceInv ==
    /\ handle = "opening" =>
          /\ sender = "some"
          /\ ready = "ok" => worker = "serving" /\ result = "ok"
          /\ ready # "ok" => worker \in {"opening", "returning", "exited"}
    /\ worker \in {"opening", "returning"} => handle = "opening"
    /\ worker \in {"opening", "serving", "running"} => result = "ok"
    /\ worker \in {"closing", "exited"} =>
          sender = "none" \/ result = "panicked" \/ handle = "opening"
    /\ handle # "dropped" => closer[Owner] = "idle"
    /\ \A c \in Calls : call[c] = "failing" => sender = "none" \/ result = "panicked"
    /\ \A c \in Calls : call[c] \in {"waiting", "returned"} /\ reply[c] = "none" =>
          \E i \in 1 .. Len(accepted) : accepted[i] = c

IInv == /\ TypeOK /\ HandleInv /\ ThreadInv /\ ReceiverInv /\ QueueInv /\ CallInv
        /\ ServiceInv

-----------------------------------------------------------------------------
(* Type correctness.                                                       *)

LEMMA InitTypeOK == Init => TypeOK
BY CallsAssumption DEF Init, TypeOK, WorkerPhase

LEMMA NextTypeOK == TypeOK /\ [Next]_vars => TypeOK'
<1> SUFFICES ASSUME TypeOK, [Next]_vars PROVE TypeOK'
  OBVIOUS
<1> USE CallsAssumption DEF TypeOK, WorkerPhase
<1>1. CASE SpawnStep
  BY <1>1 DEF SpawnStep, OpenSucceeds, OpenFails, SpawnReturns, SpawnFails,
              spawnVars, workerVars
<1>2. CASE WorkerStep
  <2>1. CASE TakeJob
    BY <2>1 DEF TakeJob, spawnVars
  <2>2. CASE Answer
    BY <2>2 DEF Answer, spawnVars
  <2>3. CASE Panic
    BY <2>3 DEF Panic, spawnVars
  <2>4. CASE DiscardJob
    BY <2>4 DEF DiscardJob, spawnVars, workerVars
  <2>5. CASE DropReceiver \/ StopServing \/ CloseDatabase \/ ThreadReturns
    BY <2>5 DEF DropReceiver, StopServing, CloseDatabase, ThreadReturns, spawnVars
  <2> QED BY <1>2, <2>1, <2>2, <2>3, <2>4, <2>5 DEF WorkerStep
<1>3. ASSUME NEW c \in Calls, BeginCall(c) \/ CallStep(c) PROVE TypeOK'
  <2>1. CASE Send(c)
    BY <2>1 DEF Send, AfterSubmit, spawnVars, workerVars
  <2>2. CASE FailJob(c)
    BY <2>2 DEF FailJob, AfterSubmit, spawnVars, workerVars
  <2>3. CASE BeginCall(c) \/ JobComesBack(c) \/ ReceiveReply(c)
    BY <2>3 DEF BeginCall, JobComesBack, ReceiveReply, spawnVars, workerVars
  <2> QED BY <1>3, <2>1, <2>2, <2>3 DEF CallStep
<1>4. ASSUME NEW k \in CloseThreads, BeginClose(k) \/ CloseStep(k) PROVE TypeOK'
  BY <1>4 DEF BeginClose, CloseStep, TakeSender, TakeThread, JoinThread,
              spawnVars, workerVars
<1>5. CASE BeginDrop
  BY <1>5 DEF BeginDrop, CloseThreads, workerVars
<1>6. CASE UNCHANGED vars
  BY <1>6 DEF vars, spawnVars, workerVars
<1> QED BY <1>1, <1>2, <1>3, <1>4, <1>5, <1>6 DEF Next

\* Every variable keeps its type, for any number of calls and closing threads.
THEOREM TypeCorrect == SafeSpec => []TypeOK
BY InitTypeOK, NextTypeOK, PTL DEF SafeSpec

-----------------------------------------------------------------------------
(* The inductive invariant holds initially and every step preserves it.    *)

LEMMA InitIInv == Init => IInv
<1> SUFFICES ASSUME Init PROVE IInv
  OBVIOUS
<1>1. TypeOK
  BY InitTypeOK
<1>2. HandleInv /\ ThreadInv /\ ReceiverInv
  BY DEF Init, HandleInv, ThreadInv, ReceiverInv
<1>3. Len(accepted) = 0 /\ Len(jobs) = 0
  BY DEF Init
<1>4. QueueInv /\ CallInv
  BY <1>3 DEF Init, QueueInv, CallInv, Served
<1>5. ServiceInv
  BY DEF Init, ServiceInv, CloseThreads
<1> QED
  BY <1>1, <1>2, <1>4, <1>5 DEF IInv

LEMMA NextHandleInv == IInv /\ [Next]_vars => HandleInv'
<1> SUFFICES ASSUME IInv, [Next]_vars PROVE HandleInv'
  OBVIOUS
<1> USE DEF IInv, TypeOK, HandleInv
<1>1. CASE SpawnStep
  BY <1>1 DEF SpawnStep, OpenSucceeds, OpenFails, SpawnReturns, SpawnFails
<1>2. CASE WorkerStep
  BY <1>2 DEF WorkerStep, TakeJob, Answer, Panic, DropReceiver, DiscardJob,
              StopServing, CloseDatabase, ThreadReturns, spawnVars
<1>3. ASSUME NEW c \in Calls, BeginCall(c) \/ CallStep(c) PROVE HandleInv'
  BY <1>3 DEF BeginCall, CallStep, Send, JobComesBack, FailJob, ReceiveReply,
              spawnVars
<1>4. ASSUME NEW k \in CloseThreads, BeginClose(k) \/ CloseStep(k)
      PROVE  HandleInv'
  BY <1>4 DEF BeginClose, CloseStep, TakeSender, TakeThread, JoinThread,
              spawnVars
<1>5. CASE BeginDrop
  BY <1>5 DEF BeginDrop
<1>6. CASE UNCHANGED vars
  BY <1>6 DEF vars, spawnVars
<1> QED BY <1>1, <1>2, <1>3, <1>4, <1>5, <1>6 DEF Next

LEMMA NextThreadInv == IInv /\ [Next]_vars => ThreadInv'
<1> SUFFICES ASSUME IInv, [Next]_vars PROVE ThreadInv'
  OBVIOUS
<1> USE DEF IInv, TypeOK, ThreadInv
<1>1. CASE SpawnStep
  BY <1>1 DEF SpawnStep, OpenSucceeds, OpenFails, SpawnReturns, SpawnFails,
              workerVars, HandleInv
<1>2. CASE WorkerStep
  BY <1>2 DEF WorkerStep, TakeJob, Answer, Panic, DropReceiver, DiscardJob,
              StopServing, CloseDatabase, ThreadReturns, spawnVars, workerVars
<1>3. ASSUME NEW c \in Calls, BeginCall(c) \/ CallStep(c) PROVE ThreadInv'
  BY <1>3 DEF BeginCall, CallStep, Send, JobComesBack, FailJob, ReceiveReply,
              spawnVars, workerVars
<1>4. ASSUME NEW k \in CloseThreads, BeginClose(k) \/ CloseStep(k)
      PROVE  ThreadInv'
  <2>1. CASE BeginClose(k)
    BY <2>1 DEF BeginClose, spawnVars, workerVars
  <2>2. CASE TakeSender(k)
    BY <2>2, HandleInv DEF TakeSender, spawnVars, workerVars, HandleInv
  <2>3. CASE TakeThread(k)
    <3>1. handle \notin {"opening", "failed"}
      BY <2>3 DEF TakeThread, HandleInv
    <3>2. \A j \in CloseThreads : closer[j] # "joining"
      BY <2>3 DEF TakeThread, ThreadLockFree
    <3>3. thread = "none" => worker = "exited"
      BY <3>2
    <3>4. closer' = [closer EXCEPT ![k] = IF thread = "some" THEN "joining"
                                                            ELSE "returned"]
      BY <2>3 DEF TakeThread
    <3> QED
      BY <2>3, <3>1, <3>3, <3>4 DEF TakeThread, spawnVars, workerVars
  <2>4. CASE JoinThread(k)
    BY <2>4 DEF JoinThread, spawnVars, workerVars
  <2> QED BY <1>4, <2>1, <2>2, <2>3, <2>4 DEF CloseStep
<1>5. CASE BeginDrop
  BY <1>5 DEF BeginDrop, InClose, CloseThreads, workerVars
<1>6. CASE UNCHANGED vars
  BY <1>6 DEF vars, spawnVars, workerVars
<1> QED BY <1>1, <1>2, <1>3, <1>4, <1>5, <1>6 DEF Next

LEMMA NextReceiverInv == IInv /\ [Next]_vars => ReceiverInv'
<1> SUFFICES ASSUME IInv, [Next]_vars PROVE ReceiverInv'
  OBVIOUS
<1> USE DEF IInv, TypeOK, ReceiverInv
<1>1. CASE SpawnStep
  BY <1>1 DEF SpawnStep, OpenSucceeds, OpenFails, SpawnReturns, SpawnFails,
              workerVars, QueueInv, CallInv
<1>2. CASE WorkerStep
  BY <1>2 DEF WorkerStep, TakeJob, Answer, Panic, DropReceiver, DiscardJob,
              StopServing, CloseDatabase, ThreadReturns, spawnVars, workerVars
<1>3. ASSUME NEW c \in Calls, BeginCall(c) \/ CallStep(c) PROVE ReceiverInv'
  BY <1>3 DEF BeginCall, CallStep, Send, JobComesBack, FailJob, ReceiveReply,
              ReceiverAlive, spawnVars, workerVars
<1>4. ASSUME NEW k \in CloseThreads, BeginClose(k) \/ CloseStep(k)
      PROVE  ReceiverInv'
  BY <1>4 DEF BeginClose, CloseStep, TakeSender, TakeThread, JoinThread,
              spawnVars, workerVars
<1>5. CASE BeginDrop
  BY <1>5 DEF BeginDrop, workerVars
<1>6. CASE UNCHANGED vars
  BY <1>6 DEF vars, spawnVars, workerVars
<1> QED BY <1>1, <1>2, <1>3, <1>4, <1>5, <1>6 DEF Next

LEMMA NextQueueInv == IInv /\ [Next]_vars => QueueInv'
<1> SUFFICES ASSUME IInv, [Next]_vars PROVE QueueInv'
  OBVIOUS
<1> USE CallsAssumption DEF IInv, TypeOK, QueueInv, Served
<1>1. CASE SpawnStep
  BY <1>1 DEF SpawnStep, OpenSucceeds, OpenFails, SpawnReturns, SpawnFails,
              workerVars
<1>2. CASE WorkerStep
  <2>1. CASE TakeJob
    <3>1. /\ Len(jobs) > 0
          /\ Head(jobs) = jobs[1]
          /\ Len(Tail(jobs)) = Len(jobs) - 1
          /\ \A i \in 1 .. Len(Tail(jobs)) : Tail(jobs)[i] = jobs[i + 1]
      BY <2>1 DEF TakeJob
    <3>2. /\ Served' = Served + 1
          /\ Served' \in 1 .. Len(accepted)
          /\ current' = accepted[Served']
      BY <2>1, <3>1 DEF TakeJob
    <3>3. \A i \in 1 .. Len(jobs') : jobs'[i] = accepted[Served' + i]
      BY <2>1, <3>1, <3>2 DEF TakeJob
    <3>4. current = NoCall
      BY <2>1 DEF TakeJob
    <3>5. \A i \in 1 .. Len(accepted) :
              /\ i > Served' => reply[accepted[i]] = "none"
              /\ i < Served' => reply[accepted[i]] # "none"
      BY <3>2, <3>4
    <3>6. reply[current'] = "none" /\ current' # NoCall
      BY <2>1, <3>1, <3>2 DEF TakeJob
    <3> QED
      BY <2>1, <3>2, <3>3, <3>5, <3>6 DEF TakeJob
  <2>2. CASE Answer \/ Panic
    <3>1. /\ UNCHANGED <<jobs, accepted>>
          /\ current' = NoCall
          /\ reply' # reply
          /\ reply' = [reply EXCEPT ![current] = reply'[current]]
          /\ reply'[current] # "none"
          /\ current # NoCall
      BY <2>2 DEF Answer, Panic
    <3>2. Served \in 1 .. Len(accepted) /\ accepted[Served] = current
      BY <3>1
    <3>3. \A i \in 1 .. Len(accepted) : i # Served => accepted[i] # current
      BY <3>2 DEF CallInv
    <3> QED
      BY <3>1, <3>2, <3>3
  <2>3. CASE DiscardJob
    <3>1. /\ Len(jobs) > 0
          /\ Head(jobs) = jobs[1]
          /\ Len(Tail(jobs)) = Len(jobs) - 1
          /\ \A i \in 1 .. Len(Tail(jobs)) : Tail(jobs)[i] = jobs[i + 1]
      BY <2>3 DEF DiscardJob
    <3>2. /\ Served' = Served + 1
          /\ Served' \in 1 .. Len(accepted)
          /\ Head(jobs) = accepted[Served']
      BY <2>3, <3>1 DEF DiscardJob
    <3>3. \A i \in 1 .. Len(jobs') : jobs'[i] = accepted[Served' + i]
      BY <2>3, <3>1, <3>2 DEF DiscardJob
    <3>4. current = NoCall /\ current' = NoCall
      BY <2>3 DEF DiscardJob, workerVars
    <3>5. \A i \in 1 .. Len(accepted) : i # Served' => accepted[i] # Head(jobs)
      BY <3>2 DEF CallInv
    <3>6. \A i \in 1 .. Len(accepted) :
              /\ i > Served' => reply'[accepted[i]] = "none"
              /\ i < Served' => reply'[accepted[i]] # "none"
      BY <2>3, <3>2, <3>4, <3>5 DEF DiscardJob
    <3>7. reply'[accepted[Served']] # "none"
      BY <2>3, <3>2 DEF DiscardJob
    <3> QED
      BY <2>3, <3>2, <3>3, <3>4, <3>6, <3>7 DEF DiscardJob
  <2>4. CASE DropReceiver \/ StopServing \/ CloseDatabase \/ ThreadReturns
    BY <2>4 DEF DropReceiver, StopServing, CloseDatabase, ThreadReturns
  <2> QED BY <1>2, <2>1, <2>2, <2>3, <2>4 DEF WorkerStep
<1>3. ASSUME NEW c \in Calls, BeginCall(c) \/ CallStep(c) PROVE QueueInv'
  <2>1. CASE Send(c)
    <3>1. /\ Len(jobs') = Len(jobs) + 1
          /\ Len(accepted') = Len(accepted) + 1
          /\ jobs' \in Seq(Calls)
          /\ accepted' \in Seq(Calls)
          /\ Served' = Served
      BY <2>1 DEF Send
    <3>2. /\ \A i \in 1 .. Len(jobs) : jobs'[i] = jobs[i]
          /\ jobs'[Len(jobs) + 1] = c
          /\ \A i \in 1 .. Len(accepted) : accepted'[i] = accepted[i]
          /\ accepted'[Len(accepted) + 1] = c
      BY <2>1 DEF Send
    <3>3. reply[c] = "none" /\ UNCHANGED <<reply, current>>
      BY <2>1 DEF Send, CallInv, workerVars
    <3>4. ASSUME NEW i \in 1 .. Len(jobs')
          PROVE  jobs'[i] = accepted'[Served' + i]
      <4>1. CASE i = Len(jobs) + 1
        BY <3>1, <3>2, <4>1
      <4>2. CASE i \in 1 .. Len(jobs)
        <5>1. Served + i \in 1 .. Len(accepted)
          BY <4>2
        <5> QED
          BY <3>1, <3>2, <4>2, <5>1
      <4> QED
        BY <3>1, <4>1, <4>2
    <3>5. ASSUME NEW i \in 1 .. Len(accepted')
          PROVE  /\ i > Served' => reply'[accepted'[i]] = "none"
                 /\ i < Served' => reply'[accepted'[i]] # "none"
      <4>1. CASE i = Len(accepted) + 1
        BY <3>1, <3>2, <3>3, <4>1
      <4>2. CASE i \in 1 .. Len(accepted)
        BY <3>1, <3>2, <3>3, <4>2
      <4> QED
        BY <3>1, <4>1, <4>2
    <3>6. Served > 0 => /\ Served \in 1 .. Len(accepted)
                        /\ accepted'[Served'] = accepted[Served]
      <4>1. Served > 0 => Served \in 1 .. Len(accepted)
        OBVIOUS
      <4> HIDE DEF Served
      <4> QED
        BY <3>1, <3>2, <4>1
    <3>7. /\ current' = NoCall /\ Served' > 0 => reply'[accepted'[Served']] # "none"
          /\ current' # NoCall => /\ Served' > 0
                                  /\ accepted'[Served'] = current'
                                  /\ reply'[current'] = "none"
      BY <3>1, <3>3, <3>6
    <3>8. Served' \in Nat
      BY <3>1
    <3> HIDE DEF Served
    <3> QED
      BY <3>4, <3>5, <3>7, <3>8
  <2>2. CASE FailJob(c)
    <3>1. /\ UNCHANGED <<jobs, accepted, current>>
          /\ \A i \in 1 .. Len(accepted) :
                accepted[i] # c /\ reply'[accepted[i]] = reply[accepted[i]]
      BY <2>2 DEF FailJob, CallInv, workerVars
    <3> QED
      BY <3>1
  <2>3. CASE BeginCall(c) \/ JobComesBack(c) \/ ReceiveReply(c)
    BY <2>3 DEF BeginCall, JobComesBack, ReceiveReply, workerVars
  <2> QED BY <1>3, <2>1, <2>2, <2>3 DEF CallStep
<1>4. ASSUME NEW k \in CloseThreads, BeginClose(k) \/ CloseStep(k)
      PROVE  QueueInv'
  BY <1>4 DEF BeginClose, CloseStep, TakeSender, TakeThread, JoinThread,
              workerVars
<1>5. CASE BeginDrop
  BY <1>5 DEF BeginDrop, workerVars
<1>6. CASE UNCHANGED vars
  BY <1>6 DEF vars, workerVars
<1> QED BY <1>1, <1>2, <1>3, <1>4, <1>5, <1>6 DEF Next

LEMMA NextCallInv == IInv /\ [Next]_vars => CallInv'
<1> SUFFICES ASSUME IInv, [Next]_vars PROVE CallInv'
  OBVIOUS
<1> USE CallsAssumption DEF IInv, TypeOK, CallInv
<1>1. CASE SpawnStep
  BY <1>1 DEF SpawnStep, OpenSucceeds, OpenFails, SpawnReturns, SpawnFails
<1>2. CASE WorkerStep
  <2>1. CASE Answer \/ Panic
    <3>1. /\ UNCHANGED <<call, accepted>>
          /\ \A c \in Calls : c # current => reply'[c] = reply[c]
          /\ reply'[current] \in {"answered", "dropped"}
      BY <2>1 DEF Answer, Panic
    <3>2. \E i \in 1 .. Len(accepted) : accepted[i] = current
      BY <2>1 DEF Answer, Panic, QueueInv, Served
    <3> QED
      BY <3>1, <3>2
  <2>2. CASE DiscardJob
    <3>1. /\ UNCHANGED <<call, accepted>>
          /\ reply' = [reply EXCEPT ![Head(jobs)] = "dropped"]
      BY <2>2 DEF DiscardJob
    <3>2. \E i \in 1 .. Len(accepted) : accepted[i] = Head(jobs)
      <4>1. Len(jobs) > 0 /\ Head(jobs) = jobs[1]
        BY <2>2 DEF DiscardJob
      <4>2. Served + 1 \in 1 .. Len(accepted)
        BY <4>1 DEF QueueInv, Served
      <4> QED
        BY <4>1, <4>2 DEF QueueInv
    <3> QED
      BY <3>1, <3>2
  <2>3. CASE \/ TakeJob \/ DropReceiver \/ StopServing \/ CloseDatabase
             \/ ThreadReturns
    BY <2>3 DEF TakeJob, DropReceiver, StopServing, CloseDatabase, ThreadReturns
  <2> QED BY <1>2, <2>1, <2>2, <2>3 DEF WorkerStep
<1>3. ASSUME NEW c \in Calls, BeginCall(c) \/ CallStep(c) PROVE CallInv'
  <2>1. CASE Send(c)
    <3>1. /\ Len(accepted') = Len(accepted) + 1
          /\ \A i \in 1 .. Len(accepted) : accepted'[i] = accepted[i]
          /\ accepted'[Len(accepted) + 1] = c
      BY <2>1 DEF Send
    <3>2. /\ reply' = reply
          /\ call'[c] \in {"waiting", "returned"}
          /\ \A d \in Calls : d # c => call'[d] = call[d]
          /\ \A i \in 1 .. Len(accepted) : accepted[i] # c
          /\ reply[c] = "none"
      BY <2>1 DEF Send, AfterSubmit
    <3>3. \A i \in 1 .. Len(accepted') :
             \/ i \in 1 .. Len(accepted) /\ accepted'[i] = accepted[i]
             \/ i = Len(accepted) + 1 /\ accepted'[i] = c
      BY <3>1
    <3>4. \A d \in Calls : call'[d] \in {"idle", "submitting", "failing"} =>
             /\ reply'[d] = "none"
             /\ \A i \in 1 .. Len(accepted') : accepted'[i] # d
      BY <3>2, <3>3
    <3>5. \A i, j \in 1 .. Len(accepted') :
             accepted'[i] = accepted'[j] => i = j
      BY <3>2, <3>3
    <3>6. \A d \in Calls : reply'[d] = "refused" =>
             \A i \in 1 .. Len(accepted') : accepted'[i] # d
      BY <3>2, <3>3
    <3> QED
      BY <3>4, <3>5, <3>6
  <2>2. CASE FailJob(c)
    BY <2>2 DEF FailJob, AfterSubmit
  <2>3. CASE BeginCall(c) \/ JobComesBack(c) \/ ReceiveReply(c)
    BY <2>3 DEF BeginCall, JobComesBack, ReceiveReply
  <2> QED BY <1>3, <2>1, <2>2, <2>3 DEF CallStep
<1>4. ASSUME NEW k \in CloseThreads, BeginClose(k) \/ CloseStep(k)
      PROVE  CallInv'
  BY <1>4 DEF BeginClose, CloseStep, TakeSender, TakeThread, JoinThread
<1>5. CASE BeginDrop
  BY <1>5 DEF BeginDrop
<1>6. CASE UNCHANGED vars
  BY <1>6 DEF vars
<1> QED BY <1>1, <1>2, <1>3, <1>4, <1>5, <1>6 DEF Next

LEMMA NextServiceInv == IInv /\ [Next]_vars => ServiceInv'
<1> SUFFICES ASSUME IInv, [Next]_vars PROVE ServiceInv'
  OBVIOUS
<1> USE CallsAssumption DEF IInv, TypeOK, ServiceInv, CloseThreads
<1>1. CASE SpawnStep
  BY <1>1 DEF SpawnStep, OpenSucceeds, OpenFails, SpawnReturns, SpawnFails,
              workerVars, HandleInv
<1>2. CASE WorkerStep
  <2>1. CASE TakeJob
    <3>1. /\ worker = "serving" /\ worker' = "running"
          /\ UNCHANGED <<handle, ready, sender, result, call, closer, reply, accepted>>
      BY <2>1 DEF TakeJob, spawnVars
    <3>2. Len(jobs) > 0 /\ Served + 1 \in 1 .. Len(accepted)
      BY <2>1 DEF TakeJob, QueueInv, Served
    <3>3. handle # "opening"
      BY <3>2 DEF HandleInv, CallInv
    <3> QED
      BY <3>1, <3>3
  <2>4. CASE DropReceiver \/ StopServing
    BY <2>4 DEF DropReceiver, StopServing, spawnVars, ReceiverInv
  <2>5. CASE CloseDatabase \/ ThreadReturns
    BY <2>5 DEF CloseDatabase, ThreadReturns, spawnVars
  <2>2. CASE Answer \/ Panic
    BY <2>2 DEF Answer, Panic, spawnVars
  <2>3. CASE DiscardJob
    BY <2>3 DEF DiscardJob, spawnVars, workerVars
  <2> QED BY <1>2, <2>1, <2>2, <2>3, <2>4, <2>5 DEF WorkerStep
<1>3. ASSUME NEW c \in Calls, BeginCall(c) \/ CallStep(c) PROVE ServiceInv'
  <2>1. CASE Send(c)
    <3>1. /\ Len(accepted') = Len(accepted) + 1
          /\ \A i \in 1 .. Len(accepted) : accepted'[i] = accepted[i]
          /\ accepted'[Len(accepted) + 1] = c
      BY <2>1 DEF Send
    <3>2. ASSUME NEW d \in Calls, call'[d] \in {"waiting", "returned"},
                 reply'[d] = "none"
          PROVE  \E i \in 1 .. Len(accepted') : accepted'[i] = d
      <4>1. CASE d = c
        BY <3>1, <4>1
      <4>2. CASE d # c
        BY <2>1, <3>1, <3>2, <4>2 DEF Send
      <4> QED
        BY <4>1, <4>2
    <3> QED
      BY <2>1, <3>2 DEF Send, AfterSubmit, spawnVars, workerVars
  <2>2. CASE FailJob(c)
    BY <2>2 DEF FailJob, AfterSubmit, spawnVars, workerVars
  <2>3. CASE BeginCall(c) \/ ReceiveReply(c)
    BY <2>3 DEF BeginCall, ReceiveReply, spawnVars, workerVars
  <2>4. CASE JobComesBack(c)
    BY <2>4 DEF JobComesBack, ReceiverAlive, HandleInv, ReceiverInv, WorkerPhase,
                spawnVars, workerVars
  <2> QED BY <1>3, <2>1, <2>2, <2>3, <2>4 DEF CallStep
<1>4. ASSUME NEW k \in CloseThreads, BeginClose(k) \/ CloseStep(k)
      PROVE  ServiceInv'
  BY <1>4 DEF BeginClose, CloseStep, TakeSender, TakeThread, JoinThread, HandleInv,
              spawnVars, workerVars
<1>5. CASE BeginDrop
  BY <1>5 DEF BeginDrop, workerVars
<1>6. CASE UNCHANGED vars
  BY <1>6 DEF vars, spawnVars, workerVars
<1> QED BY <1>1, <1>2, <1>3, <1>4, <1>5, <1>6 DEF Next

\* The invariant holds of every reachable state.
THEOREM Invariance == SafeSpec => []IInv
<1>1. IInv /\ [Next]_vars => IInv'
  BY NextTypeOK, NextHandleInv, NextThreadInv, NextReceiverInv, NextQueueInv,
     NextCallInv, NextServiceInv DEF IInv
<1> QED
  BY InitIInv, <1>1, PTL DEF SafeSpec

-----------------------------------------------------------------------------
(* What the invariant gives.                                               *)

\* A close that has returned has waited for the worker thread to end, which it
\* does only when every accepted job has its reply.
THEOREM CloseWaits == SafeSpec => []CloseWaitsForDatabase
<1>1. IInv => CloseWaitsForDatabase
  <2> SUFFICES ASSUME IInv, NEW k \in CloseThreads, closer[k] = "returned"
               PROVE  /\ worker = "exited"
                      /\ \A i \in DOMAIN accepted : reply[accepted[i]] # "none"
    BY DEF CloseWaitsForDatabase
  <2>1. worker = "exited" /\ jobs = <<>> /\ current = NoCall
    BY DEF IInv, ThreadInv, ReceiverInv, TypeOK
  <2>2. Served = Len(accepted)
    BY <2>1 DEF Served, IInv, TypeOK
  <2> QED
    BY <2>1, <2>2 DEF IInv, QueueInv, TypeOK
<1> QED
  BY <1>1, Invariance, PTL

\* Only a panic of the worker thread loses an accepted job.
THEOREM JobsAreAnswered == SafeSpec => []AcceptedJobsAreAnswered
<1>1. IInv => AcceptedJobsAreAnswered
  BY DEF IInv, ReceiverInv, AcceptedJobsAreAnswered
<1> QED
  BY <1>1, Invariance, PTL

\* Jobs are served first come, first served.
THEOREM FirstComeFirstServed == SafeSpec => []ServedInOrder
<1>1. IInv => ServedInOrder
  <2> SUFFICES ASSUME IInv, NEW i \in DOMAIN accepted, NEW j \in DOMAIN accepted,
                      i < j, reply[accepted[j]] # "none"
               PROVE  reply[accepted[i]] # "none"
    BY DEF ServedInOrder
  <2>1. i \in 1 .. Len(accepted) /\ j \in 1 .. Len(accepted)
    BY DEF IInv, TypeOK
  <2>2. j <= Served
    BY <2>1 DEF IInv, QueueInv
  <2> QED
    BY <2>1, <2>2 DEF IInv, QueueInv
<1> QED
  BY <1>1, Invariance, PTL

\* What became of a reply is final, and so is the closing of the handle.
THEOREM RepliesAreFinal == SafeSpec => ReplyIsFinal
<1>1. IInv /\ [Next]_vars =>
         [\A c \in Calls : reply[c] # "none" => reply'[c] = reply[c]]_vars
  <2> SUFFICES ASSUME IInv, [Next]_vars, NEW c \in Calls, reply[c] # "none"
               PROVE  reply'[c] = reply[c]
    OBVIOUS
  <2> USE DEF IInv, TypeOK
  <2>1. CASE UNCHANGED reply
    BY <2>1
  <2>2. CASE Answer \/ Panic
    <3>1. current \in Calls /\ reply[current] = "none"
      BY <2>2, CallsAssumption DEF Answer, Panic, QueueInv
    <3> QED
      BY <2>2, <3>1 DEF Answer, Panic
  <2>3. CASE DiscardJob
    <3>1. Len(jobs) > 0 /\ Head(jobs) = jobs[1]
      BY <2>3 DEF DiscardJob
    <3>2. Served + 1 \in 1 .. Len(accepted) /\ accepted[Served + 1] = jobs[1]
      BY <3>1 DEF QueueInv, Served
    <3>3. reply[Head(jobs)] = "none"
      BY <3>1, <3>2 DEF QueueInv, Served
    <3> QED
      BY <2>3, <3>3 DEF DiscardJob
  <2>4. ASSUME NEW d \in Calls, FailJob(d) PROVE reply'[c] = reply[c]
    BY <2>4 DEF FailJob, CallInv
  <2>5. UNCHANGED reply \/ Answer \/ Panic \/ DiscardJob \/ \E d \in Calls : FailJob(d)
    BY DEF Next, SpawnStep, WorkerStep, CallStep, CloseStep, OpenSucceeds,
           OpenFails, SpawnReturns, SpawnFails, TakeJob, DropReceiver,
           StopServing, CloseDatabase, ThreadReturns, BeginCall, Send,
           JobComesBack, ReceiveReply, BeginClose, TakeSender, TakeThread,
           JoinThread, BeginDrop, vars
  <2> QED
    BY <2>1, <2>2, <2>3, <2>4, <2>5
<1> QED
  BY <1>1, Invariance, PTL DEF SafeSpec, ReplyIsFinal

\* Once some close has dropped the sender, no job is accepted any more.
THEOREM ClosedForGood == SafeSpec => NothingAcceptedAfterClose
<1>1. IInv /\ [Next]_vars =>
         [accepted' # accepted =>
            \A k \in CloseThreads : closer[k] \in {"idle", "taking"}]_vars
  <2> SUFFICES ASSUME IInv, [Next]_vars, accepted' # accepted
               PROVE  \A k \in CloseThreads : closer[k] \in {"idle", "taking"}
    OBVIOUS
  <2>1. \E c \in Calls : Send(c)
    BY DEF Next, SpawnStep, WorkerStep, CallStep, CloseStep, OpenSucceeds,
           OpenFails, SpawnReturns, SpawnFails, TakeJob, Answer, Panic,
           DropReceiver, DiscardJob, StopServing, CloseDatabase, ThreadReturns,
           BeginCall, JobComesBack, FailJob, ReceiveReply, BeginClose,
           TakeSender, TakeThread, JoinThread, BeginDrop, vars
  <2> QED
    BY <2>1 DEF Send, IInv, ThreadInv, TypeOK
<1> QED
  BY <1>1, Invariance, PTL DEF SafeSpec, NothingAcceptedAfterClose

\* Replies, refusals and the close of a handle are final.
THEOREM FinalAnswers == SafeSpec => AnswersAreFinal
BY RepliesAreFinal, ClosedForGood DEF AnswersAreFinal

-----------------------------------------------------------------------------
(* The worker thread, its channel and its mutexes implement DatabaseHandle, *)
(* but for its fairness: every step is one of its steps or changes nothing  *)
(* that it shows.                                                           *)

\* What a step may show: nothing, ...
LEMMA Stutter ==
  ASSUME \A c \in Calls : StatusOf(c)' = StatusOf(c), ServiceState' = ServiceState,
         \A k \in CloseThreads : ClosingState(k)' = ClosingState(k)
  PROVE  UNCHANGED Handle!vars
BY DEF Handle!vars

\* ... or that one call moves on.
LEMMA CallMoves ==
  ASSUME NEW c \in Calls, NEW to,
         \A d \in Calls \ {c} : StatusOf(d)' = StatusOf(d), StatusOf(c)' = to,
         ServiceState' = ServiceState,
         \A k \in CloseThreads : ClosingState(k)' = ClosingState(k)
  PROVE  Handle!Move(c, to)
BY DEF Handle!Move

LEMMA InitRefines == Init => Handle!Init
<1> SUFFICES ASSUME Init PROVE Handle!Init
  OBVIOUS
<1>1. \A c \in Calls : StatusOf(c) = "idle"
  BY CallsAssumption DEF Init, StatusOf
<1>2. ServiceState = "opening"
  BY DEF Init, ServiceState
<1>3. \A k \in CloseThreads : ClosingState(k) = "idle"
  BY DEF Init, ClosingState
<1> QED
  BY <1>1, <1>2, <1>3 DEF Handle!Init

\* Spawning shows itself when it returns.
LEMMA SpawnRefines ==
  ASSUME IInv, SpawnStep PROVE [Handle!Next]_(Handle!vars)
<1>1. \A c \in Calls : StatusOf(c)' = StatusOf(c)
  <2> TAKE c \in Calls
  <2>1. UNCHANGED <<call, reply, current>>
    BY DEF SpawnStep, OpenSucceeds, OpenFails, SpawnReturns, SpawnFails, workerVars
  <2> QED
    BY <2>1 DEF StatusOf
<1>2. \A k \in CloseThreads : ClosingState(k)' = ClosingState(k)
  BY DEF SpawnStep, OpenSucceeds, OpenFails, SpawnReturns, SpawnFails, ClosingState
<1>3. CASE OpenSucceeds \/ OpenFails
  <2>1. handle = "opening" /\ handle' = "opening"
    BY <1>3 DEF OpenSucceeds, OpenFails, IInv, ServiceInv
  <2>2. ServiceState' = ServiceState
    BY <2>1 DEF ServiceState
  <2> QED
    BY <1>1, <1>2, <2>2, Stutter
<1>4. ASSUME NEW opened \in {"open", "failed"}, ServiceState = "opening",
             ServiceState' = opened
      PROVE  Handle!Next
  BY <1>1, <1>2, <1>4 DEF Handle!Next, Handle!Open
<1>5. CASE SpawnReturns
  <2>1. /\ handle = "opening" /\ handle' = "open" /\ worker' = "serving"
        /\ result' = "ok" /\ sender' = "some"
    BY <1>5 DEF SpawnReturns, IInv, ServiceInv, workerVars
  <2>2. ServiceState = "opening" /\ ServiceState' = "open"
    BY <2>1 DEF ServiceState
  <2> QED
    BY <1>4, <2>2
<1>6. CASE SpawnFails
  <2>1. ServiceState = "opening" /\ ServiceState' = "failed"
    BY <1>6 DEF SpawnFails, ServiceState
  <2> QED
    BY <1>4, <2>1
<1> QED
  BY <1>3, <1>5, <1>6 DEF SpawnStep

\* A call is requested, accepted or refused.
LEMMA CallRefines ==
  ASSUME IInv, NEW c \in Calls, BeginCall(c) \/ CallStep(c)
  PROVE  [Handle!Next]_(Handle!vars)
<1> USE DEF IInv, TypeOK
<1>1. ServiceState' = ServiceState
  BY DEF BeginCall, CallStep, Send, JobComesBack, FailJob, ReceiveReply, ServiceState,
         spawnVars, workerVars
<1>2. \A k \in CloseThreads : ClosingState(k)' = ClosingState(k)
  BY DEF BeginCall, CallStep, Send, JobComesBack, FailJob, ReceiveReply, ClosingState
<1>3. \A d \in Calls \ {c} : StatusOf(d)' = StatusOf(d)
  <2> TAKE d \in Calls \ {c}
  <2>1. call'[d] = call[d] /\ reply'[d] = reply[d] /\ current' = current
    BY DEF BeginCall, CallStep, Send, JobComesBack, FailJob, ReceiveReply, workerVars
  <2> QED
    BY <2>1 DEF StatusOf
<1>4. current # c \/ call[c] \notin {"idle", "submitting", "failing"}
  BY CallsAssumption DEF QueueInv, Served, CallInv
<1>5. CASE BeginCall(c)
  <2>1. /\ call[c] = "idle" /\ call'[c] = "submitting" /\ UNCHANGED <<reply, current>>
        /\ reply[c] = "none" /\ current # c /\ handle = "open"
    BY <1>4, <1>5 DEF BeginCall, CallInv, workerVars
  <2>2. StatusOf(c) = "idle" /\ StatusOf(c)' = "requested"
    BY <2>1 DEF StatusOf
  <2>3. ServiceState \notin {"opening", "failed"}
    BY <2>1 DEF ServiceState
  <2>4. Handle!Request(c)
    BY <1>1, <1>2, <1>3, <2>2, <2>3, CallMoves DEF Handle!Request
  <2> QED
    BY <2>4 DEF Handle!Next, Handle!CallStep
<1>6. CASE Send(c)
  <2>1. /\ call[c] = "submitting" /\ call'[c] \in {"waiting", "returned"}
        /\ UNCHANGED <<reply, current>>
        /\ reply[c] = "none" /\ current # c
        /\ handle \notin {"opening", "failed"} /\ sender = "some" /\ worker # "exited"
    BY <1>4, <1>6 DEF Send, AfterSubmit, CallInv, HandleInv, ReceiverAlive, workerVars
  <2>2. StatusOf(c) = "requested" /\ StatusOf(c)' = "accepted"
    BY <2>1 DEF StatusOf
  <2>3. ServiceState \in {"open", "crashed"}
    BY <2>1 DEF ServiceState
  <2>4. Handle!Accept(c)
    BY <1>1, <1>2, <1>3, <2>2, <2>3, CallMoves DEF Handle!Accept
  <2> QED
    BY <2>4 DEF Handle!Next, Handle!CallStep
<1>7. CASE FailJob(c)
  <2>1. /\ call[c] = "failing" /\ reply[c] = "none" /\ reply'[c] = "refused"
        /\ current # c
        /\ handle \notin {"opening", "failed"}
        /\ sender = "none" \/ result = "panicked"
    BY <1>4, <1>7 DEF FailJob, CallInv, HandleInv, ServiceInv
  <2>2. StatusOf(c) = "requested" /\ StatusOf(c)' = "closed"
    BY <2>1 DEF StatusOf
  <2>3. ServiceState \in {"closing", "crashed", "closed"}
    BY <2>1 DEF ServiceState
  <2>4. Handle!Refuse(c)
    BY <1>1, <1>2, <1>3, <2>2, <2>3, CallMoves DEF Handle!Refuse
  <2> QED
    BY <2>4 DEF Handle!Next, Handle!CallStep
<1>8. CASE JobComesBack(c) \/ ReceiveReply(c)
  <2>1. /\ UNCHANGED <<reply, current>>
        /\ \/ call[c] = "submitting" /\ call'[c] = "failing" /\ current # c
           \/ reply[c] # "none"
    BY <1>4, <1>8 DEF JobComesBack, ReceiveReply, workerVars
  <2>2. StatusOf(c)' = StatusOf(c)
    BY <2>1 DEF StatusOf
  <2> QED
    BY <1>1, <1>2, <1>3, <2>2, Stutter
<1> QED
  BY <1>5, <1>6, <1>7, <1>8 DEF CallStep
\* Every job that is queued is of an accepted call.
LEMMA QueuedCall ==
  ASSUME IInv, jobs # <<>>
  PROVE  /\ Head(jobs) \in Calls /\ current = NoCall => StatusOf(Head(jobs)) = "accepted"
         /\ reply[Head(jobs)] = "none" /\ call[Head(jobs)] \in {"waiting", "returned"}
         /\ handle \notin {"opening", "failed"}
<1> USE DEF IInv, TypeOK
<1>1. Len(jobs) > 0 /\ Head(jobs) = jobs[1] /\ jobs[1] \in Calls
  OBVIOUS
<1>2. Served + 1 \in 1 .. Len(accepted) /\ accepted[Served + 1] = jobs[1]
  BY <1>1 DEF QueueInv, Served
<1>3. reply[jobs[1]] = "none" /\ call[jobs[1]] \in {"waiting", "returned"}
  BY <1>1, <1>2 DEF QueueInv, CallInv, Served
<1>4. current = NoCall => StatusOf(jobs[1]) = "accepted"
  BY <1>1, <1>3, CallsAssumption DEF StatusOf
<1> QED
  BY <1>1, <1>3, <1>4 DEF HandleInv

\* The worker thread starts, answers and loses jobs, crashes and closes the database.
LEMMA WorkerRefines ==
  ASSUME IInv, WorkerStep PROVE [Handle!Next]_(Handle!vars)
<1> USE DEF IInv, TypeOK
<1>1. \A k \in CloseThreads : ClosingState(k)' = ClosingState(k)
  BY DEF WorkerStep, TakeJob, Answer, Panic, DropReceiver, DiscardJob, StopServing,
         CloseDatabase, ThreadReturns, ClosingState
<1>2. UNCHANGED <<handle, sender, call>>
  BY DEF WorkerStep, TakeJob, Answer, Panic, DropReceiver, DiscardJob, StopServing,
         CloseDatabase, ThreadReturns, spawnVars
<1>3. ASSUME UNCHANGED <<reply, current>>
      PROVE  \A c \in Calls : StatusOf(c)' = StatusOf(c)
  BY <1>2, <1>3 DEF StatusOf
<1>4. ASSUME current # NoCall
      PROVE  /\ current \in Calls /\ reply[current] = "none"
             /\ StatusOf(current) = "running" /\ handle \notin {"opening", "failed"}
  <2>1. current \in Calls /\ reply[current] = "none" /\ Served \in 1 .. Len(accepted)
    BY <1>4 DEF QueueInv, Served
  <2>2. handle \notin {"opening", "failed"}
    BY <2>1 DEF HandleInv, CallInv
  <2> QED
    BY <2>1, <2>2 DEF StatusOf
<1>5. CASE TakeJob
  <2>1. /\ jobs # <<>> /\ worker = "serving" /\ worker' = "running" /\ current = NoCall
        /\ current' = Head(jobs) /\ UNCHANGED <<result, reply>> /\ result = "ok"
    BY <1>5 DEF TakeJob, ServiceInv
  <2>2. PICK c \in Calls : /\ c = Head(jobs) /\ StatusOf(c) = "accepted"
                           /\ reply[c] = "none" /\ handle \notin {"opening", "failed"}
    BY <2>1, QueuedCall
  <2>3. StatusOf(c)' = "running"
    BY <2>1, <2>2 DEF StatusOf
  <2>4. \A d \in Calls \ {c} : StatusOf(d)' = StatusOf(d)
    BY <1>2, <2>1, <2>2, CallsAssumption DEF StatusOf
  <2>5. \A d \in Calls : StatusOf(d) # "running"
    BY <2>1, CallsAssumption DEF StatusOf
  <2>6. ServiceState \in {"open", "closing"} /\ ServiceState' = ServiceState
    BY <1>2, <2>1, <2>2 DEF ServiceState
  <2>7. Handle!Start(c)
    BY <1>1, <2>2, <2>3, <2>4, <2>5, <2>6, CallMoves DEF Handle!Start
  <2> QED
    BY <2>2, <2>7 DEF Handle!Next, Handle!CallStep
<1>6. CASE Answer
  <2>1. /\ worker = "running" /\ worker' = "serving" /\ current # NoCall
        /\ reply' = [reply EXCEPT ![current] = "answered"] /\ current' = NoCall
        /\ UNCHANGED result
    BY <1>6 DEF Answer
  <2>0. PICK c \in Calls : c = current
    BY <1>4, <2>1
  <2>2. \A d \in Calls \ {c} : StatusOf(d)' = StatusOf(d)
    BY <1>2, <2>0, <2>1, CallsAssumption DEF StatusOf
  <2>3. StatusOf(c)' = "answered"
    BY <2>0, <2>1 DEF StatusOf
  <2>4. ServiceState' = ServiceState
    BY <1>2, <2>1 DEF ServiceState
  <2>5. Handle!Answer(c)
    BY <1>1, <1>4, <2>0, <2>1, <2>2, <2>3, <2>4, CallMoves DEF Handle!Answer
  <2> QED
    BY <2>5 DEF Handle!Next, Handle!CallStep
<1>7. CASE Panic
  <2>1. /\ worker = "running" /\ worker' = "unwinding" /\ current # NoCall
        /\ reply' = [reply EXCEPT ![current] = "dropped"] /\ current' = NoCall
        /\ result = "ok" /\ result' = "panicked"
    BY <1>7 DEF Panic, ServiceInv
  <2>0. PICK c \in Calls : c = current
    BY <1>4, <2>1
  <2>2. \A d \in Calls \ {c} : StatusOf(d)' = StatusOf(d)
    BY <1>2, <2>0, <2>1, CallsAssumption DEF StatusOf
  <2>3. StatusOf(c)' = "closed"
    BY <2>0, <2>1 DEF StatusOf
  <2>4. ServiceState \in {"open", "closing"} /\ ServiceState' = "crashed"
    BY <1>2, <1>4, <2>1 DEF ServiceState
  <2>5. Handle!Crash(c)
    BY <1>1, <1>4, <2>0, <2>1, <2>2, <2>3, <2>4 DEF Handle!Crash
  <2> QED
    BY <2>5 DEF Handle!Next, Handle!CallStep
<1>8. CASE DiscardJob
  <2>1. /\ jobs # <<>> /\ worker = "discarding" /\ current = NoCall
        /\ reply' = [reply EXCEPT ![Head(jobs)] = "dropped"]
        /\ UNCHANGED <<worker, current, result>> /\ result = "panicked"
    BY <1>8 DEF DiscardJob, ReceiverInv, workerVars
  <2>2. PICK c \in Calls : /\ c = Head(jobs) /\ StatusOf(c) = "accepted"
                           /\ handle \notin {"opening", "failed"}
    BY <2>1, QueuedCall
  <2>3. \A d \in Calls \ {c} : StatusOf(d)' = StatusOf(d)
    BY <1>2, <2>1, <2>2 DEF StatusOf
  <2>4. StatusOf(c)' = "closed"
    BY <2>1, <2>2 DEF StatusOf
  <2>5. ServiceState = "crashed" /\ ServiceState' = ServiceState
    BY <1>2, <2>1, <2>2 DEF ServiceState
  <2>6. Handle!Lose(c)
    BY <1>1, <2>2, <2>3, <2>4, <2>5, CallMoves DEF Handle!Lose
  <2> QED
    BY <2>2, <2>6 DEF Handle!Next, Handle!CallStep
<1>9. CASE CloseDatabase
  <2>1. /\ worker = "closing" /\ worker' = "exited" /\ jobs = <<>> /\ current = NoCall
        /\ UNCHANGED <<result, reply, current>>
        /\ sender = "none" \/ result = "panicked"
        /\ handle \notin {"opening", "failed"}
    BY <1>9 DEF CloseDatabase, ServiceInv, ThreadInv, ReceiverInv
  <2>2. ServiceState \in {"closing", "crashed"} /\ ServiceState' = "closed"
    BY <1>2, <2>1 DEF ServiceState
  <2>3. ASSUME NEW c \in Calls PROVE StatusOf(c) \notin {"accepted", "running"}
    <3>1. Served = Len(accepted)
      BY <2>1 DEF Served
    <3>2. \A i \in 1 .. Len(accepted) : reply[accepted[i]] # "none"
      BY <2>1, <3>1 DEF QueueInv
    <3>3. ~ (call[c] \in {"waiting", "returned"} /\ reply[c] = "none")
      BY <3>2 DEF ServiceInv
    <3>4. reply[c] \in {"none", "answered", "refused", "dropped"} /\ current # c
      BY <2>1, CallsAssumption
    <3> QED
      BY <3>3, <3>4 DEF StatusOf
  <2>4. Handle!CloseDatabase
    BY <1>1, <1>3, <2>1, <2>2, <2>3 DEF Handle!CloseDatabase, Handle!Unfinished
  <2> QED
    BY <2>4 DEF Handle!Next
<1>10. CASE DropReceiver \/ StopServing \/ ThreadReturns
  <2>1. /\ UNCHANGED <<reply, current, result>>
        /\ handle = "opening" \/ (worker # "exited" /\ worker' # "exited")
    BY <1>10 DEF DropReceiver, StopServing, ThreadReturns, ServiceInv
  <2>2. ServiceState' = ServiceState
    BY <1>2, <2>1 DEF ServiceState
  <2> QED
    BY <1>1, <1>3, <2>1, <2>2, Stutter
<1> QED
  BY <1>5, <1>6, <1>7, <1>8, <1>9, <1>10 DEF WorkerStep

\* The handle stops accepting, and every close returns once the database is closed.
LEMMA CloseRefines ==
  ASSUME IInv, NEW k \in CloseThreads, BeginClose(k) \/ CloseStep(k)
  PROVE  [Handle!Next]_(Handle!vars)
<1> USE DEF IInv, TypeOK
<1>1. \A c \in Calls : StatusOf(c)' = StatusOf(c)
  BY DEF BeginClose, CloseStep, TakeSender, TakeThread, JoinThread, StatusOf, workerVars
<1>2. /\ UNCHANGED <<handle, worker, result>>
      /\ \A j \in CloseThreads \ {k} : closer'[j] = closer[j]
  BY DEF BeginClose, CloseStep, TakeSender, TakeThread, JoinThread, spawnVars, workerVars
<1>3. \A j \in CloseThreads \ {k} : ClosingState(j)' = ClosingState(j)
  BY <1>2 DEF ClosingState
<1>4. CASE BeginClose(k)
  <2>1. /\ handle = "open" /\ closer[k] = "idle" /\ closer'[k] = "taking"
        /\ UNCHANGED sender
    BY <1>4 DEF BeginClose
  <2>2. ClosingState(k) = "idle" /\ ClosingState(k)' = "closing"
    BY <2>1 DEF ClosingState
  <2>3. ServiceState \notin {"opening", "failed"} /\ ServiceState' = ServiceState
    BY <1>2, <2>1 DEF ServiceState
  <2>4. Handle!BeginClose(k)
    BY <1>1, <1>3, <2>2, <2>3 DEF Handle!BeginClose
  <2> QED
    BY <2>4 DEF Handle!Next
<1>5. CASE TakeSender(k)
  <2>1. /\ closer[k] = "taking" /\ closer'[k] = "locking" /\ sender' = "none"
        /\ handle \notin {"opening", "failed"}
    BY <1>5 DEF TakeSender, HandleInv
  <2>2. ClosingState(k) = "closing" /\ \A j \in CloseThreads : ClosingState(j)' = ClosingState(j)
    BY <1>3, <2>1 DEF ClosingState
  <2>3. \/ ServiceState = "open" /\ ServiceState' = "closing"
        \/ ServiceState' = ServiceState
    BY <1>2, <2>1 DEF ServiceState
  <2>4. CASE ServiceState = "open" /\ ServiceState' = "closing"
    BY <1>1, <2>2, <2>4 DEF Handle!Next, Handle!StopAccepting
  <2> QED
    BY <1>1, <2>2, <2>3, <2>4, Stutter
<1>6. CASE TakeThread(k) \/ JoinThread(k)
  <2>1. /\ closer[k] \in {"locking", "joining"}
        /\ closer'[k] = "joining" \/ (closer'[k] = "returned" /\ worker = "exited")
        /\ handle \notin {"opening", "failed"} /\ UNCHANGED sender
    <3>1. CASE TakeThread(k)
      BY <3>1 DEF TakeThread, HandleInv, ThreadInv, ThreadLockFree
    <3>2. CASE JoinThread(k)
      BY <3>2 DEF JoinThread, HandleInv
    <3> QED
      BY <1>6, <3>1, <3>2
  <2>2. ServiceState' = ServiceState
    BY <1>2, <2>1 DEF ServiceState
  <2>3. CASE closer'[k] = "joining"
    <3>1. ClosingState(k)' = ClosingState(k)
      BY <2>1, <2>3 DEF ClosingState
    <3> QED
      BY <1>1, <1>3, <2>2, <3>1, Stutter
  <2>4. CASE closer'[k] = "returned" /\ worker = "exited"
    <3>1. /\ ClosingState(k) = "closing" /\ ClosingState(k)' = "returned"
          /\ ServiceState = "closed"
      BY <2>1, <2>4 DEF ClosingState, ServiceState
    <3>2. Handle!EndClose(k)
      BY <1>1, <1>3, <2>2, <3>1 DEF Handle!EndClose
    <3> QED
      BY <3>2 DEF Handle!Next
  <2> QED
    BY <2>1, <2>3, <2>4
<1> QED
  BY <1>4, <1>5, <1>6 DEF CloseStep

\* Dropping the handle is one more close.
LEMMA DropRefines ==
  ASSUME IInv, BeginDrop PROVE [Handle!Next]_(Handle!vars)
<1> USE DEF IInv, TypeOK
<1>1. /\ Owner \in CloseThreads /\ closer[Owner] = "idle"
      /\ closer' = [closer EXCEPT ![Owner] = "taking"]
      /\ handle = "open" /\ handle' = "dropped"
      /\ UNCHANGED <<sender, worker, current, result, call, reply>>
  BY DEF BeginDrop, ServiceInv, CloseThreads, workerVars
<1>2. \A c \in Calls : StatusOf(c)' = StatusOf(c)
  BY <1>1 DEF StatusOf
<1>3. ServiceState' = ServiceState /\ ServiceState \notin {"opening", "failed"}
  BY <1>1 DEF ServiceState
<1>4. /\ \A j \in CloseThreads \ {Owner} : ClosingState(j)' = ClosingState(j)
      /\ ClosingState(Owner) = "idle" /\ ClosingState(Owner)' = "closing"
  BY <1>1 DEF ClosingState
<1>5. Handle!BeginClose(Owner)
  BY <1>1, <1>2, <1>3, <1>4 DEF Handle!BeginClose
<1> QED
  BY <1>1, <1>5 DEF Handle!Next

LEMMA StepRefines == IInv /\ [Next]_vars => [Handle!Next]_(Handle!vars)
<1> SUFFICES ASSUME IInv, [Next]_vars PROVE [Handle!Next]_(Handle!vars)
  OBVIOUS
<1>1. CASE UNCHANGED vars
  <2>1. UNCHANGED <<handle, sender, worker, current, result, call, closer, reply>>
    BY <1>1 DEF vars, spawnVars, workerVars
  <2>2. /\ \A c \in Calls : StatusOf(c)' = StatusOf(c)
        /\ ServiceState' = ServiceState
        /\ \A k \in CloseThreads : ClosingState(k)' = ClosingState(k)
    BY <2>1 DEF StatusOf, ServiceState, ClosingState
  <2> QED
    BY <2>2, Stutter
<1> QED
  BY <1>1, SpawnRefines, WorkerRefines, CallRefines, CloseRefines, DropRefines DEF Next

\* For any calls and closing threads the worker thread does what DatabaseHandle
\* promises: jobs run one at a time, a call is refused only by a handle that has
\* stopped or crashed and lost only to a crash, and a close returns only once the
\* database is closed, with no accepted job left.
THEOREM HandleIsImplemented == SafeSpec => Handle!SafeSpec
BY Invariance, InitRefines, StepRefines, PTL DEF SafeSpec, Handle!SafeSpec
-----------------------------------------------------------------------------
(* The front ends.                                                         *)

LEMMA LeastNat ==
    ASSUME NEW T, T \subseteq Nat, T # {}
    PROVE  \E m \in T : \A k \in T : m <= k
<1> DEFINE R == {ss \in Nat \X Nat : ss[1] < ss[2]}
<1>1. IsWellFoundedOn(R, Nat)
    BY NatLessThanWellFounded DEF OpToRel
<1> HIDE DEF R
<1>2. PICK m \in T : \A k \in T : ~ (<<k, m>> \in R)
    BY <1>1, WFMin
<1>3. \A k \in T : ~ (k < m)
    BY <1>2 DEF R
<1> QED
    BY <1>3

-----------------------------------------------------------------------------
(* The first error of the checks.                                          *)

PassBefore(checks, k) == \A i \in DOMAIN checks : i < k => ~ checks[i][1]
AllPass(checks) == \A i \in DOMAIN checks : ~ checks[i][1]

LEMMA NoError ==
    ASSUME NEW checks, AllPass(checks)
    PROVE  FirstError(checks) = "none"
BY DEF FirstError, AllPass

LEMMA FirstOfErrors ==
    ASSUME NEW checks, NEW k \in DOMAIN checks, DOMAIN checks \subseteq Nat,
           checks[k][1], PassBefore(checks, k)
    PROVE  FirstError(checks) = checks[k][2]
<1> DEFINE failed == {i \in DOMAIN checks : checks[i][1]}
           first == CHOOSE i \in failed : \A j \in failed : i <= j
<1>1. k \in failed /\ \A j \in failed : k <= j
    BY DEF PassBefore
<1>2. first \in failed /\ \A j \in failed : first <= j
    BY <1>1
<1>3. first = k
    <2> HIDE DEF first
    <2> QED
        BY <1>1, <1>2
<1>4. FirstError(checks) = checks[first][2]
    BY <1>1 DEF FirstError
<1> QED
    BY <1>3, <1>4

LEMMA OfOneCheck ==
    ASSUME NEW a \in BOOLEAN, NEW aError
    PROVE  FirstError(<<<<a, aError>>>>) =
               IF a THEN aError ELSE "none"
<1> DEFINE checks == <<<<a, aError>>>>
<1>1. DOMAIN checks = 1 .. 1 /\ DOMAIN checks \subseteq Nat
    OBVIOUS
<1>2. checks[1][1] = a /\ checks[1][2] = aError
    OBVIOUS
<1> HIDE DEF checks
<1>3. ASSUME a PROVE FirstError(checks) = aError
    <2>1. 1 \in DOMAIN checks /\ checks[1][1]
        BY <1>1, <1>2, <1>3
    <2>2. PassBefore(checks, 1)
        BY <1>1, <1>2, <1>3 DEF PassBefore
    <2> QED
        BY <1>1, <1>2, <2>1, <2>2, FirstOfErrors
<1>4. ASSUME ~ a PROVE FirstError(checks) = "none"
    <2>1. AllPass(checks)
        BY <1>1, <1>2, <1>4 DEF AllPass
    <2> QED
        BY <2>1, NoError
<1> QED
    BY <1>3, <1>4 DEF checks

LEMMA OfTwoChecks ==
    ASSUME NEW a \in BOOLEAN, NEW aError,
           NEW b \in BOOLEAN, NEW bError
    PROVE  FirstError(<<<<a, aError>>, <<b, bError>>>>) =
               IF a THEN aError ELSE IF b THEN bError ELSE "none"
<1> DEFINE checks == <<<<a, aError>>, <<b, bError>>>>
<1>1. DOMAIN checks = 1 .. 2 /\ DOMAIN checks \subseteq Nat
    OBVIOUS
<1>2. checks[1][1] = a /\ checks[1][2] = aError
    OBVIOUS
<1>3. checks[2][1] = b /\ checks[2][2] = bError
    OBVIOUS
<1> HIDE DEF checks
<1>4. ASSUME a PROVE FirstError(checks) = aError
    <2>1. 1 \in DOMAIN checks /\ checks[1][1]
        BY <1>1, <1>2, <1>4
    <2>2. PassBefore(checks, 1)
        BY <1>1, <1>2, <1>3, <1>4 DEF PassBefore
    <2> QED
        BY <1>1, <1>2, <2>1, <2>2, FirstOfErrors
<1>5. ASSUME ~ a /\ b PROVE FirstError(checks) = bError
    <2>1. 2 \in DOMAIN checks /\ checks[2][1]
        BY <1>1, <1>3, <1>5
    <2>2. PassBefore(checks, 2)
        BY <1>1, <1>2, <1>3, <1>5 DEF PassBefore
    <2> QED
        BY <1>1, <1>3, <2>1, <2>2, FirstOfErrors
<1>6. ASSUME ~ a /\ ~ b PROVE FirstError(checks) = "none"
    <2>1. AllPass(checks)
        BY <1>1, <1>2, <1>3, <1>6 DEF AllPass
    <2> QED
        BY <2>1, NoError
<1> QED
    BY <1>4, <1>5, <1>6 DEF checks

LEMMA OfThreeChecks ==
    ASSUME NEW a \in BOOLEAN, NEW aError,
           NEW b \in BOOLEAN, NEW bError,
           NEW c \in BOOLEAN, NEW cError
    PROVE  FirstError(<<<<a, aError>>, <<b, bError>>, <<c, cError>>>>) =
               IF a THEN aError ELSE IF b THEN bError ELSE IF c THEN cError ELSE "none"
<1> DEFINE checks == <<<<a, aError>>, <<b, bError>>, <<c, cError>>>>
<1>1. DOMAIN checks = 1 .. 3 /\ DOMAIN checks \subseteq Nat
    OBVIOUS
<1>2. checks[1][1] = a /\ checks[1][2] = aError
    OBVIOUS
<1>3. checks[2][1] = b /\ checks[2][2] = bError
    OBVIOUS
<1>4. checks[3][1] = c /\ checks[3][2] = cError
    OBVIOUS
<1> HIDE DEF checks
<1>5. ASSUME a PROVE FirstError(checks) = aError
    <2>1. 1 \in DOMAIN checks /\ checks[1][1]
        BY <1>1, <1>2, <1>5
    <2>2. PassBefore(checks, 1)
        BY <1>1, <1>2, <1>3, <1>4, <1>5 DEF PassBefore
    <2> QED
        BY <1>1, <1>2, <2>1, <2>2, FirstOfErrors
<1>6. ASSUME ~ a /\ b PROVE FirstError(checks) = bError
    <2>1. 2 \in DOMAIN checks /\ checks[2][1]
        BY <1>1, <1>3, <1>6
    <2>2. PassBefore(checks, 2)
        BY <1>1, <1>2, <1>3, <1>4, <1>6 DEF PassBefore
    <2> QED
        BY <1>1, <1>3, <2>1, <2>2, FirstOfErrors
<1>7. ASSUME ~ a /\ ~ b /\ c PROVE FirstError(checks) = cError
    <2>1. 3 \in DOMAIN checks /\ checks[3][1]
        BY <1>1, <1>4, <1>7
    <2>2. PassBefore(checks, 3)
        BY <1>1, <1>2, <1>3, <1>4, <1>7 DEF PassBefore
    <2> QED
        BY <1>1, <1>4, <2>1, <2>2, FirstOfErrors
<1>8. ASSUME ~ a /\ ~ b /\ ~ c PROVE FirstError(checks) = "none"
    <2>1. AllPass(checks)
        BY <1>1, <1>2, <1>3, <1>4, <1>8 DEF AllPass
    <2> QED
        BY <2>1, NoError
<1> QED
    BY <1>5, <1>6, <1>7, <1>8 DEF checks

\* What the two arguments of every step are.
Typed == request \in RequestType /\ world \in World

LEMMA CliArgumentsIs ==
    ASSUME Typed
    PROVE  CliArguments =
        IF request.op = "validate" /\ NoTarget THEN "argument"
        ELSE IF request.op = "validate" /\ request.limit = "negative" THEN "argument"
        ELSE IF request.op # "schema" /\ ~ request.names THEN "argument"
        ELSE "none"
<1> DEFINE a == request.op = "validate" /\ NoTarget
           b == request.op = "validate" /\ request.limit = "negative"
           c == request.op # "schema" /\ ~ request.names
<1>1. a \in BOOLEAN /\ b \in BOOLEAN /\ c \in BOOLEAN
    BY DEF Typed, RequestType, World, NoTarget
<1>2. CliArguments = FirstError(<<<<a, "argument">>, <<b, "argument">>, <<c, "argument">>>>)
    BY DEF CliArguments
<1> HIDE DEF a, b, c
<1>3. FirstError(<<<<a, "argument">>, <<b, "argument">>, <<c, "argument">>>>) =
        IF a THEN "argument" ELSE IF b THEN "argument" ELSE IF c THEN "argument" ELSE "none"
    BY <1>1, OfThreeChecks
<1> QED
    BY <1>2, <1>3 DEF a, b, c

LEMMA CliValidateIs ==
    ASSUME Typed
    PROVE  CliValidate =
        IF Refused(request.timeout) THEN "argument"
        ELSE IF Opening("unavailable") THEN "backend-unavailable"
        ELSE IF Opening("unreachable") THEN "connection"
        ELSE IF ByManifest /\ Unreadable THEN "manifest"
        ELSE IF ByShapes /\ Dumps /\ ~ world.answers THEN "database"
        ELSE IF ByShapes /\ request.schema = "broken object" THEN "compile"
        ELSE IF ByShapes /\ ~ world.compiles THEN "compile"
        ELSE IF ByManifest /\ request.text = "foreign" THEN "manifest"
        ELSE "none"
<1> DEFINE a == Refused(request.timeout)
           b == Opening("unavailable")
           c == Opening("unreachable")
           d == ByManifest /\ Unreadable
           e == ByShapes /\ Dumps /\ ~ world.answers
           f == ByShapes /\ request.schema = "broken object"
           g == ByShapes /\ ~ world.compiles
           h == ByManifest /\ request.text = "foreign"
<1>1. a \in BOOLEAN /\ b \in BOOLEAN /\ c \in BOOLEAN /\ d \in BOOLEAN /\ e \in BOOLEAN /\
    f \in BOOLEAN /\ g \in BOOLEAN /\ h \in BOOLEAN
    <2>1. a \in BOOLEAN
        BY DEF Refused
    <2>2. b \in BOOLEAN
        BY DEF Opening
    <2>3. c \in BOOLEAN
        BY DEF Opening
    <2>4. d \in BOOLEAN
        BY DEF Unreadable, ByManifest
    <2>5. e \in BOOLEAN
        BY DEF Typed, RequestType, World, ByShapes, Dumps
    <2>6. f \in BOOLEAN
        BY DEF ByShapes
    <2>7. g \in BOOLEAN
        BY DEF Typed, RequestType, World, ByShapes
    <2>8. h \in BOOLEAN
        BY DEF ByManifest
    <2> QED
        BY <2>1, <2>2, <2>3, <2>4, <2>5, <2>6, <2>7, <2>8
<1>2. CliValidate = FirstError(<<<<a, "argument">>, <<b, "backend-unavailable">>,
    <<c, "connection">>, <<d, "manifest">>, <<e, "database">>, <<f, "compile">>,
        <<g, "compile">>, <<h, "manifest">>>>)
    BY DEF CliValidate
<1> HIDE DEF a, b, c, d, e, f, g, h
<1> DEFINE checks == <<<<a, "argument">>, <<b, "backend-unavailable">>, <<c, "connection">>,
    <<d, "manifest">>, <<e, "database">>, <<f, "compile">>, <<g, "compile">>, <<h, "manifest">>>>
<1>3. DOMAIN checks = 1 .. 8 /\ DOMAIN checks \subseteq Nat
    OBVIOUS
<1>4. checks[1][1] = a /\ checks[1][2] = "argument"
    BY <1>1
<1>5. checks[2][1] = b /\ checks[2][2] = "backend-unavailable"
    BY <1>1
<1>6. checks[3][1] = c /\ checks[3][2] = "connection"
    BY <1>1
<1>7. checks[4][1] = d /\ checks[4][2] = "manifest"
    BY <1>1
<1>8. checks[5][1] = e /\ checks[5][2] = "database"
    BY <1>1
<1>9. checks[6][1] = f /\ checks[6][2] = "compile"
    BY <1>1
<1>10. checks[7][1] = g /\ checks[7][2] = "compile"
    BY <1>1
<1>11. checks[8][1] = h /\ checks[8][2] = "manifest"
    BY <1>1
<1> HIDE DEF checks
<1>12. ASSUME a PROVE FirstError(checks) = "argument"
    <2>1. 1 \in DOMAIN checks /\ checks[1][1]
        BY <1>3, <1>4, <1>12
    <2>2. PassBefore(checks, 1)
        BY <1>3, <1>4, <1>5, <1>6, <1>7, <1>8, <1>9, <1>10, <1>11, <1>12 DEF PassBefore
    <2> QED
        BY <1>3, <1>4, <2>1, <2>2, FirstOfErrors
<1>13. ASSUME ~ a /\ b PROVE FirstError(checks) = "backend-unavailable"
    <2>1. 2 \in DOMAIN checks /\ checks[2][1]
        BY <1>3, <1>5, <1>13
    <2>2. PassBefore(checks, 2)
        BY <1>3, <1>4, <1>5, <1>6, <1>7, <1>8, <1>9, <1>10, <1>11, <1>13 DEF PassBefore
    <2> QED
        BY <1>3, <1>5, <2>1, <2>2, FirstOfErrors
<1>14. ASSUME ~ a /\ ~ b /\ c PROVE FirstError(checks) = "connection"
    <2>1. 3 \in DOMAIN checks /\ checks[3][1]
        BY <1>3, <1>6, <1>14
    <2>2. PassBefore(checks, 3)
        BY <1>3, <1>4, <1>5, <1>6, <1>7, <1>8, <1>9, <1>10, <1>11, <1>14 DEF PassBefore
    <2> QED
        BY <1>3, <1>6, <2>1, <2>2, FirstOfErrors
<1>15. ASSUME ~ a /\ ~ b /\ ~ c /\ d PROVE FirstError(checks) = "manifest"
    <2>1. 4 \in DOMAIN checks /\ checks[4][1]
        BY <1>3, <1>7, <1>15
    <2>2. PassBefore(checks, 4)
        BY <1>3, <1>4, <1>5, <1>6, <1>7, <1>8, <1>9, <1>10, <1>11, <1>15 DEF PassBefore
    <2> QED
        BY <1>3, <1>7, <2>1, <2>2, FirstOfErrors
<1>16. ASSUME ~ a /\ ~ b /\ ~ c /\ ~ d /\ e PROVE FirstError(checks) = "database"
    <2>1. 5 \in DOMAIN checks /\ checks[5][1]
        BY <1>3, <1>8, <1>16
    <2>2. PassBefore(checks, 5)
        BY <1>3, <1>4, <1>5, <1>6, <1>7, <1>8, <1>9, <1>10, <1>11, <1>16 DEF PassBefore
    <2> QED
        BY <1>3, <1>8, <2>1, <2>2, FirstOfErrors
<1>17. ASSUME ~ a /\ ~ b /\ ~ c /\ ~ d /\ ~ e /\ f PROVE FirstError(checks) = "compile"
    <2>1. 6 \in DOMAIN checks /\ checks[6][1]
        BY <1>3, <1>9, <1>17
    <2>2. PassBefore(checks, 6)
        BY <1>3, <1>4, <1>5, <1>6, <1>7, <1>8, <1>9, <1>10, <1>11, <1>17 DEF PassBefore
    <2> QED
        BY <1>3, <1>9, <2>1, <2>2, FirstOfErrors
<1>18. ASSUME ~ a /\ ~ b /\ ~ c /\ ~ d /\ ~ e /\ ~ f /\ g PROVE FirstError(checks) = "compile"
    <2>1. 7 \in DOMAIN checks /\ checks[7][1]
        BY <1>3, <1>10, <1>18
    <2>2. PassBefore(checks, 7)
        BY <1>3, <1>4, <1>5, <1>6, <1>7, <1>8, <1>9, <1>10, <1>11, <1>18 DEF PassBefore
    <2> QED
        BY <1>3, <1>10, <2>1, <2>2, FirstOfErrors
<1>19. ASSUME ~ a /\ ~ b /\ ~ c /\ ~ d /\ ~ e /\ ~ f /\ ~ g /\
    h PROVE FirstError(checks) = "manifest"
    <2>1. 8 \in DOMAIN checks /\ checks[8][1]
        BY <1>3, <1>11, <1>19
    <2>2. PassBefore(checks, 8)
        BY <1>3, <1>4, <1>5, <1>6, <1>7, <1>8, <1>9, <1>10, <1>11, <1>19 DEF PassBefore
    <2> QED
        BY <1>3, <1>11, <2>1, <2>2, FirstOfErrors
<1>20. ASSUME ~ a /\ ~ b /\ ~ c /\ ~ d /\ ~ e /\ ~ f /\ ~ g /\ ~ h PROVE FirstError(checks) = "none"
    <2>1. AllPass(checks)
        BY <1>3, <1>4, <1>5, <1>6, <1>7, <1>8, <1>9, <1>10, <1>11, <1>20 DEF AllPass
    <2> QED
        BY <2>1, NoError
<1> DEFINE error == FirstError(checks)
<1>21. CliValidate = error
    BY <1>2 DEF checks
<1>22. error =
        IF a THEN "argument" ELSE IF b THEN "backend-unavailable"
        ELSE IF c THEN "connection" ELSE IF d THEN "manifest" ELSE IF e THEN "database"
        ELSE IF f THEN "compile" ELSE IF g THEN "compile" ELSE IF h THEN "manifest" ELSE "none"
    <2> HIDE DEF error
    <2> QED
        BY <1>12, <1>13, <1>14, <1>15, <1>16, <1>17, <1>18, <1>19, <1>20 DEF error
<1> HIDE DEF error
<1> QED
    BY <1>21, <1>22 DEF a, b, c, d, e, f, g, h

LEMMA CliDumpIs ==
    ASSUME Typed
    PROVE  CliDump =
        IF Opening("unavailable") THEN "backend-unavailable"
        ELSE IF Opening("unreachable") THEN "connection"
        ELSE IF ~ world.answers THEN "database"
        ELSE "none"
<1> DEFINE a == Opening("unavailable")
           b == Opening("unreachable")
           c == ~ world.answers
<1>1. a \in BOOLEAN /\ b \in BOOLEAN /\ c \in BOOLEAN
    BY DEF Typed, RequestType, World, Opening
<1>2. CliDump = FirstError(<<<<a, "backend-unavailable">>, <<b, "connection">>, <<c, "database">>>>)
    BY DEF CliDump
<1> HIDE DEF a, b, c
<1>3. FirstError(<<<<a, "backend-unavailable">>, <<b, "connection">>, <<c, "database">>>>) =
        IF a THEN "backend-unavailable" ELSE IF b THEN "connection"
        ELSE IF c THEN "database" ELSE "none"
    BY <1>1, OfThreeChecks
<1> QED
    BY <1>2, <1>3 DEF a, b, c

LEMMA CliCompileIs ==
    ASSUME Typed
    PROVE  CliCompile =
        IF request.schema = "broken object" THEN "compile"
        ELSE IF ~ world.compiles THEN "compile"
        ELSE "none"
<1> DEFINE a == request.schema = "broken object"
           b == ~ world.compiles
<1>1. a \in BOOLEAN /\ b \in BOOLEAN
    BY DEF Typed, RequestType, World
<1>2. CliCompile = FirstError(<<<<a, "compile">>, <<b, "compile">>>>)
    BY DEF CliCompile
<1> HIDE DEF a, b
<1>3. FirstError(<<<<a, "compile">>, <<b, "compile">>>>) =
        IF a THEN "compile" ELSE IF b THEN "compile" ELSE "none"
    BY <1>1, OfTwoChecks
<1> QED
    BY <1>2, <1>3 DEF a, b

LEMMA PythonWrapperIs ==
    PythonWrapper =
        IF request.op = "validate" /\ NoTarget THEN "argument"
        ELSE IF request.op = "validate" /\ request.limit = "negative" THEN "argument"
        ELSE "none"
<1> DEFINE a == request.op = "validate" /\ NoTarget
           b == request.op = "validate" /\ request.limit = "negative"
<1>1. a \in BOOLEAN /\ b \in BOOLEAN
    BY DEF NoTarget
<1>2. PythonWrapper = FirstError(<<<<a, "argument">>, <<b, "argument">>>>)
    BY DEF PythonWrapper
<1> HIDE DEF a, b
<1>3. FirstError(<<<<a, "argument">>, <<b, "argument">>>>) =
        IF a THEN "argument" ELSE IF b THEN "argument" ELSE "none"
    BY <1>1, OfTwoChecks
<1> QED
    BY <1>2, <1>3 DEF a, b

LEMMA NodeWrapperIs ==
    NodeWrapper =
        IF request.op = "validate" /\ NoTarget THEN "argument"
        ELSE IF request.op = "validate" /\ request.limit = "negative" THEN "argument"
        ELSE "none"
<1> DEFINE a == request.op = "validate" /\ NoTarget
           b == request.op = "validate" /\ request.limit = "negative"
<1>1. a \in BOOLEAN /\ b \in BOOLEAN
    BY DEF NoTarget
<1>2. NodeWrapper = FirstError(<<<<a, "argument">>, <<b, "argument">>>>)
    BY DEF NodeWrapper
<1> HIDE DEF a, b
<1>3. FirstError(<<<<a, "argument">>, <<b, "argument">>>>) =
        IF a THEN "argument" ELSE IF b THEN "argument" ELSE "none"
    BY <1>1, OfTwoChecks
<1> QED
    BY <1>2, <1>3 DEF a, b

LEMMA BindingManifestIs ==
    BindingManifest =
        IF Unreadable THEN "manifest"
        ELSE IF request.text = "foreign" THEN "manifest"
        ELSE "none"
<1> DEFINE a == Unreadable
           b == request.text = "foreign"
<1>1. a \in BOOLEAN /\ b \in BOOLEAN
    BY DEF Unreadable
<1>2. BindingManifest = FirstError(<<<<a, "manifest">>, <<b, "manifest">>>>)
    BY DEF BindingManifest
<1> HIDE DEF a, b
<1>3. FirstError(<<<<a, "manifest">>, <<b, "manifest">>>>) =
        IF a THEN "manifest" ELSE IF b THEN "manifest" ELSE "none"
    BY <1>1, OfTwoChecks
<1> QED
    BY <1>2, <1>3 DEF a, b

LEMMA PrepareIs ==
    ASSUME Typed
    PROVE  Prepare =
        IF ~ request.names THEN "argument"
        ELSE IF request.schema = "broken object" THEN "compile"
        ELSE "none"
<1> DEFINE a == ~ request.names
           b == request.schema = "broken object"
<1>1. a \in BOOLEAN /\ b \in BOOLEAN
    BY DEF Typed, RequestType, World
<1>2. Prepare = FirstError(<<<<a, "argument">>, <<b, "compile">>>>)
    BY DEF Prepare
<1> HIDE DEF a, b
<1>3. FirstError(<<<<a, "argument">>, <<b, "compile">>>>) =
        IF a THEN "argument" ELSE IF b THEN "compile" ELSE "none"
    BY <1>1, OfTwoChecks
<1> QED
    BY <1>2, <1>3 DEF a, b

LEMMA PythonCompileIs ==
    ASSUME Typed, request.op = "compile"
    PROVE  PythonNative =
        IF Prepare # "none" THEN Prepare
        ELSE IF ~ world.compiles THEN "compile"
        ELSE "none"
<1> DEFINE a == Prepare # "none"
           b == ~ world.compiles
<1>1. a \in BOOLEAN /\ b \in BOOLEAN
    BY DEF Typed, RequestType, World
<1>2. PythonNative = FirstError(<<<<a, Prepare>>, <<b, "compile">>>>)
    BY DEF PythonNative
<1> HIDE DEF a, b
<1>3. FirstError(<<<<a, Prepare>>, <<b, "compile">>>>) =
        IF a THEN Prepare ELSE IF b THEN "compile" ELSE "none"
    BY <1>1, OfTwoChecks
<1> QED
    BY <1>2, <1>3 DEF a, b

LEMMA PythonValidateIs ==
    ASSUME request.op = "validate"
    PROVE  PythonNative =
        IF Refused(request.timeout) THEN "argument"
        ELSE IF ByManifest /\ BindingManifest # "none" THEN BindingManifest
        ELSE IF ByShapes /\ Prepare # "none" THEN Prepare
        ELSE "none"
<1> DEFINE a == Refused(request.timeout)
           b == ByManifest /\ BindingManifest # "none"
           c == ByShapes /\ Prepare # "none"
<1>1. a \in BOOLEAN /\ b \in BOOLEAN /\ c \in BOOLEAN
    BY DEF Refused, ByManifest, ByShapes
<1>2. PythonNative = FirstError(<<<<a, "argument">>, <<b, BindingManifest>>, <<c, Prepare>>>>)
    BY DEF PythonNative
<1> HIDE DEF a, b, c
<1>3. FirstError(<<<<a, "argument">>, <<b, BindingManifest>>, <<c, Prepare>>>>) =
        IF a THEN "argument" ELSE IF b THEN BindingManifest ELSE IF c THEN Prepare ELSE "none"
    BY <1>1, OfThreeChecks
<1> QED
    BY <1>2, <1>3 DEF a, b, c

LEMMA NodeCompileIs ==
    ASSUME Typed, request.op = "compile"
    PROVE  NodeNative =
        IF Prepare # "none" THEN Prepare
        ELSE IF ~ world.compiles THEN "compile"
        ELSE "none"
<1> DEFINE a == Prepare # "none"
           b == ~ world.compiles
<1>1. a \in BOOLEAN /\ b \in BOOLEAN
    BY DEF Typed, RequestType, World
<1>2. NodeNative = FirstError(<<<<a, Prepare>>, <<b, "compile">>>>)
    BY DEF NodeNative
<1> HIDE DEF a, b
<1>3. FirstError(<<<<a, Prepare>>, <<b, "compile">>>>) =
        IF a THEN Prepare ELSE IF b THEN "compile" ELSE "none"
    BY <1>1, OfTwoChecks
<1> QED
    BY <1>2, <1>3 DEF a, b

LEMMA NodeValidateIs ==
    ASSUME request.op = "validate"
    PROVE  NodeNative =
        IF Refused(TimeoutSent) THEN "argument"
        ELSE IF ByManifest /\ BindingManifest # "none" THEN BindingManifest
        ELSE IF ByShapes /\ Prepare # "none" THEN Prepare
        ELSE "none"
<1> DEFINE a == Refused(TimeoutSent)
           b == ByManifest /\ BindingManifest # "none"
           c == ByShapes /\ Prepare # "none"
<1>1. a \in BOOLEAN /\ b \in BOOLEAN /\ c \in BOOLEAN
    BY DEF Refused, ByManifest, ByShapes
<1>2. NodeNative = FirstError(<<<<a, "argument">>, <<b, BindingManifest>>, <<c, Prepare>>>>)
    BY DEF NodeNative
<1> HIDE DEF a, b, c
<1>3. FirstError(<<<<a, "argument">>, <<b, BindingManifest>>, <<c, Prepare>>>>) =
        IF a THEN "argument" ELSE IF b THEN BindingManifest ELSE IF c THEN Prepare ELSE "none"
    BY <1>1, OfThreeChecks
<1> QED
    BY <1>2, <1>3 DEF a, b, c

LEMMA WorkerSchemaIs ==
    ASSUME Typed, request.op = "schema"
    PROVE  WorkerError =
        IF ~ world.answers THEN "database"
        ELSE "none"
<1> DEFINE a == ~ world.answers
<1>1. a \in BOOLEAN
    BY DEF Typed, RequestType, World
<1>2. WorkerError = FirstError(<<<<a, "database">>>>)
    BY DEF WorkerError
<1> HIDE DEF a
<1>3. FirstError(<<<<a, "database">>>>) =
        IF a THEN "database" ELSE "none"
    BY <1>1, OfOneCheck
<1> QED
    BY <1>2, <1>3 DEF a

LEMMA WorkerValidateIs ==
    ASSUME Typed, request.op # "schema"
    PROVE  WorkerError =
        IF ByShapes /\ Dumps /\ ~ world.answers THEN "database"
        ELSE IF ByShapes /\ ~ world.compiles THEN "compile"
        ELSE IF ByManifest /\ request.text = "foreign" THEN "manifest"
        ELSE "none"
<1> DEFINE a == ByShapes /\ Dumps /\ ~ world.answers
           b == ByShapes /\ ~ world.compiles
           c == ByManifest /\ request.text = "foreign"
<1>1. a \in BOOLEAN /\ b \in BOOLEAN /\ c \in BOOLEAN
    BY DEF Typed, RequestType, World, ByManifest, ByShapes, Dumps
<1>2. WorkerError = FirstError(<<<<a, "database">>, <<b, "compile">>, <<c, "manifest">>>>)
    BY DEF WorkerError
<1> HIDE DEF a, b, c
<1>3. FirstError(<<<<a, "database">>, <<b, "compile">>, <<c, "manifest">>>>) =
        IF a THEN "database" ELSE IF b THEN "compile" ELSE IF c THEN "manifest" ELSE "none"
    BY <1>1, OfThreeChecks
<1> QED
    BY <1>2, <1>3 DEF a, b, c

LEMMA OpenErrorIs ==
    OpenError =
        IF Opening("unavailable") THEN "backend-unavailable"
        ELSE IF Opening("unreachable") THEN "connection"
        ELSE "none"
<1> DEFINE a == Opening("unavailable")
           b == Opening("unreachable")
<1>1. a \in BOOLEAN /\ b \in BOOLEAN
    BY DEF Opening
<1>2. OpenError = FirstError(<<<<a, "backend-unavailable">>, <<b, "connection">>>>)
    BY DEF OpenError
<1> HIDE DEF a, b
<1>3. FirstError(<<<<a, "backend-unavailable">>, <<b, "connection">>>>) =
        IF a THEN "backend-unavailable" ELSE IF b THEN "connection" ELSE "none"
    BY <1>1, OfTwoChecks
<1> QED
    BY <1>2, <1>3 DEF a, b

-----------------------------------------------------------------------------
(* The inductive invariant.                                                *)

\* A request that can be made through every front end and means the same in each: a
\* timeout that JSON text has, and options of shapes only with shapes.
Statable ==
    /\ request.timeout # "not finite"
    /\ request.op # "validate" => ByShapes
    /\ ByManifest => request.names

\* The arguments that the wrapper of a binding looks at.
WrapperContent == request.op = "validate" => ~ NoTarget /\ request.limit # "negative"

\* What the binding has looked at when it hands the job to the worker.
BindingContent ==
    /\ WrapperContent
    /\ request.op # "compile"
    /\ "argument" \notin Wrong
    /\ "manifest" \notin Wrong
    /\ request.op = "validate" /\ ByShapes => request.schema # "broken object"

LimitOf(f) == IF request.op = "validate" THEN Limit(f) ELSE 0

\* How a front end may end.
Ended(f) ==
    \/ /\ outcome[f] = [kind |-> "closed", limit |-> 0]
       /\ f \in Bindings /\ handles[f] = "closed" /\ BindingContent
    \/ outcome[f].kind \in Wrong /\ outcome[f].limit = 0
    \/ Wrong = {} /\ outcome[f] = [kind |-> Success, limit |-> LimitOf(f)]

\* What a front end knows of the request and the world where it is.
FrontInv(f) ==
    /\ at[f] # "done" => outcome[f] = NoOutcome
    /\ at[f] = "run" => /\ f = "cli" /\ WrapperContent
                        /\ request.op # "schema" => request.names
    /\ at[f] = "native" => f \in Bindings /\ WrapperContent
    /\ at[f] \in {"submit", "queued"} => f \in Bindings /\ BindingContent
    /\ at[f] = "done" => Ended(f)

\* A handle is open only on a database that opens, and a job needs it.
HandlesInv(f) ==
    /\ NeedsHandle /\ handles[f] = "open" => Opening("yes")
    /\ NeedsHandle /\ handles[f] = "closed" /\ at[f] # "done" => Opening("yes")
    /\ NeedsHandle /\ at[f] \in {"native", "submit", "queued"} => handles[f] # "unopened"

FrontEndsTypeOK ==
    /\ request \in Request
    /\ world \in World
    /\ at \in [FrontEnd -> {"start", "run", "native", "submit", "queued", "done"}]
    /\ handles \in [Bindings -> {"unopened", "open", "closed"}]
    /\ DOMAIN outcome = FrontEnd
    /\ asked \subseteq FrontEnd

Understood ==
    /\ \A f \in FrontEnd : FrontInv(f)
    /\ \A f \in Bindings : HandlesInv(f)
    /\ asked # {} => Wrong = {}

FrontEndsInv == FrontEndsTypeOK /\ (Statable => Understood)

LEMMA TypeIsTyped == ASSUME FrontEndsTypeOK PROVE Typed
BY FrontEndsAssumption DEF FrontEndsTypeOK, Typed

LEMMA InitFrontEndsInv == FrontEndsInit => FrontEndsInv
<1> SUFFICES ASSUME FrontEndsInit PROVE FrontEndsInv
    OBVIOUS
<1>1. FrontEndsTypeOK
    BY DEF FrontEndsInit, FrontEndsTypeOK, FrontEnd, Bindings
<1>2. ASSUME NEW f \in FrontEnd PROVE FrontInv(f)
    BY DEF FrontEndsInit, FrontInv, FrontEnd
<1>3. ASSUME NEW f \in Bindings PROVE HandlesInv(f)
    BY DEF FrontEndsInit, HandlesInv, FrontEnd, Bindings
<1> QED
    BY <1>1, <1>2, <1>3 DEF FrontEndsInv, Understood, FrontEndsInit

\* What stays the same with the request and the world.
LEMMA SameRequest ==
    ASSUME UNCHANGED <<request, world>>
    PROVE  /\ Wrong' = Wrong /\ Statable' = Statable /\ WrapperContent' = WrapperContent
           /\ BindingContent' = BindingContent /\ Success' = Success
           /\ \A f \in FrontEnd : LimitOf(f)' = LimitOf(f)
           /\ NeedsHandle' = NeedsHandle /\ Opening("yes")' = Opening("yes")
<1>1. Wrong' = Wrong
    BY DEF Wrong, NoTarget, ByManifest, ByShapes, NeedsHandle, Opening, Dumps
<1>2. WrapperContent' = WrapperContent /\ Statable' = Statable
    BY DEF WrapperContent, Statable, NoTarget, ByManifest, ByShapes
<1>3. BindingContent' = BindingContent
    BY <1>1, <1>2 DEF BindingContent, ByShapes
<1>4. \A f \in FrontEnd : LimitOf(f)' = LimitOf(f)
    BY DEF LimitOf, Limit, CliLimit, PythonLimit, NodeLimit, Said, FrontEnd
<1> QED
    BY <1>1, <1>2, <1>3, <1>4 DEF Success, NeedsHandle, Opening

\* A front end that takes no step, and whose handle is not touched, knows what it knew.
LEMMA OthersKnow ==
    ASSUME UNCHANGED <<request, world>>, NEW f \in FrontEnd, FrontInv(f),
           at'[f] = at[f], outcome'[f] = outcome[f],
           f \in Bindings => (handles[f] = "closed" => handles'[f] = "closed")
    PROVE  FrontInv(f)'
BY SameRequest DEF FrontInv, Ended

LEMMA OtherHandles ==
    ASSUME UNCHANGED <<request, world>>, NEW f \in Bindings, HandlesInv(f),
           at'[f] = at[f], handles'[f] = handles[f]
    PROVE  HandlesInv(f)'
BY SameRequest DEF HandlesInv

LEMMA FrontEndsTypes == ASSUME FrontEndsTypeOK, [FrontEndsNext]_frontEndsVars PROVE FrontEndsTypeOK'
<1>1. ASSUME NEW f \in Bindings, OpenHandle(f) PROVE FrontEndsTypeOK'
    BY <1>1 DEF FrontEndsTypeOK, OpenHandle, GoOn, Bindings, FrontEnd
<1>2. ASSUME NEW f \in Bindings, Close(f) PROVE FrontEndsTypeOK'
    BY <1>2 DEF FrontEndsTypeOK, Close, Bindings
<1>3. ASSUME NEW f \in Bindings, Submit(f) PROVE FrontEndsTypeOK'
    BY <1>3 DEF FrontEndsTypeOK, Submit, GoOn, Bindings, FrontEnd
<1>4. ASSUME NEW f \in FrontEnd, NEW error, Finish(f, error) PROVE FrontEndsTypeOK'
    BY <1>4 DEF FrontEndsTypeOK, Finish, FrontEnd
<1>5. ASSUME CallPython \/ CallNode \/ ParseArguments PROVE FrontEndsTypeOK'
    BY <1>5 DEF FrontEndsTypeOK, CallPython, CallNode, ParseArguments, GoOn, FrontEnd, Bindings
<1>6. ASSUME NEW f \in FrontEnd, NEW error, Native(f, error) PROVE FrontEndsTypeOK'
    BY <1>6 DEF FrontEndsTypeOK, Native, GoOn
<1>7. CASE UNCHANGED frontEndsVars
    BY <1>7 DEF FrontEndsTypeOK, frontEndsVars
<1>8. Bindings \subseteq FrontEnd /\ "cli" \in FrontEnd /\ "python" \in FrontEnd /\
    "node" \in FrontEnd
    BY DEF Bindings, FrontEnd
<1>9. CASE FrontEndsNext
    <2>1. CASE \E f \in Bindings : OpenHandle(f) \/ Close(f) \/ Submit(f) \/ AnswerJob(f)
        BY <2>1, <1>1, <1>2, <1>3, <1>4, <1>8 DEF AnswerJob
    <2>2. CASE CallPython \/ CallNode \/ ParseArguments
        BY <2>2, <1>5
    <2>3. CASE NativePython \/ NativeNode
        BY <2>3, <1>6, <1>8 DEF NativePython, NativeNode
    <2>4. CASE RunCommand
        BY <2>4, <1>4, <1>8 DEF RunCommand
    <2> QED
        BY <1>9, <2>1, <2>2, <2>3, <2>4 DEF FrontEndsNext
<1> QED
    BY <1>7, <1>9

\* A step of f leaves the other front ends alone.
OnlyMoves(f) ==
    /\ UNCHANGED <<request, world>>
    /\ \A g \in FrontEnd \ {f} : at'[g] = at[g] /\ outcome'[g] = outcome[g]
    /\ \A g \in Bindings \ {f} : handles'[g] = handles[g]

LEMMA OneMoves ==
    ASSUME Understood, NEW f \in FrontEnd, OnlyMoves(f), FrontInv(f)',
           f \in Bindings => HandlesInv(f)', asked' # {} => Wrong = {}
    PROVE  Understood'
<1>1. ASSUME NEW g \in FrontEnd \ {f} PROVE FrontInv(g)'
    BY <1>1, OthersKnow DEF Understood, OnlyMoves
<1>2. ASSUME NEW g \in Bindings \ {f} PROVE HandlesInv(g)'
    <2>1. g \in FrontEnd
        BY DEF Bindings
    <2> QED
        BY <2>1, <1>2, OtherHandles DEF Understood, OnlyMoves
<1>3. asked' # {} => Wrong' = {}
    BY SameRequest DEF OnlyMoves
<1>4. ASSUME NEW g \in FrontEnd PROVE FrontInv(g)'
    BY <1>1
<1>5. ASSUME NEW g \in Bindings PROVE HandlesInv(g)'
    BY <1>2
<1> QED
    BY <1>3, <1>4, <1>5 DEF Understood

-----------------------------------------------------------------------------
(* One lemma per action.                                                   *)

LEMMA OpenHandleKnows ==
    ASSUME FrontEndsTypeOK, Understood, Statable, NEW f \in Bindings, OpenHandle(f)
    PROVE  Understood'
<1>1. f \in FrontEnd /\ DOMAIN at = FrontEnd /\ DOMAIN handles = Bindings /\
    DOMAIN outcome = FrontEnd
    BY DEF FrontEndsTypeOK, Bindings
<1>2. OnlyMoves(f)
    BY <1>1 DEF OnlyMoves, OpenHandle, GoOn
<1>3. world \in World /\ FrontInv(f) /\ HandlesInv(f) /\ NeedsHandle /\ at[f] = "start"
    BY <1>1 DEF Understood, FrontEndsTypeOK, OpenHandle
<1>4. CASE OpenError = "none"
    <2>1. Opening("yes")
        BY <1>3, <1>4, OpenErrorIs DEF Opening, World
    <2>2. at'[f] = "start" /\ outcome'[f] = NoOutcome /\ handles'[f] = "open"
        BY <1>1, <1>3, <1>4 DEF OpenHandle, GoOn, FrontInv
    <2>3. FrontInv(f)'
        BY <2>2, SameRequest DEF FrontInv, NoOutcome
    <2>4. HandlesInv(f)'
        BY <1>2, <2>1, <2>2, SameRequest DEF HandlesInv, OnlyMoves
    <2> QED
        BY <1>1, <1>2, <2>3, <2>4, OneMoves DEF OpenHandle, Understood
<1>5. CASE OpenError # "none"
    <2>1. OpenError \in Wrong
        BY <1>3, <1>5, OpenErrorIs DEF Wrong
    <2>2. at'[f] = "done" /\ outcome'[f] = [NoOutcome EXCEPT !.kind = OpenError] /\
        handles'[f] = "closed"
        BY <1>1, <1>3, <1>5 DEF OpenHandle, GoOn, FrontInv
    <2>3. FrontInv(f)'
        BY <1>2, <2>1, <2>2, SameRequest DEF FrontInv, NoOutcome, Ended, OnlyMoves
    <2>4. HandlesInv(f)'
        BY <2>2 DEF HandlesInv
    <2> QED
        BY <1>1, <1>2, <2>3, <2>4, OneMoves DEF OpenHandle, Understood
<1> QED
    BY <1>4, <1>5

LEMMA CloseKnows ==
    ASSUME FrontEndsTypeOK, Understood, NEW f \in Bindings, Close(f)
    PROVE  Understood'
<1>1. f \in FrontEnd /\ DOMAIN handles = Bindings
    BY DEF FrontEndsTypeOK, Bindings
<1>2. OnlyMoves(f) /\ handles'[f] = "closed" /\ at'[f] = at[f] /\ outcome'[f] = outcome[f]
    BY <1>1 DEF OnlyMoves, Close
<1>3. FrontInv(f)'
    BY <1>1, <1>2, OthersKnow DEF Understood, OnlyMoves
<1>4. HandlesInv(f)'
    BY <1>1, <1>2, SameRequest DEF Understood, HandlesInv, Close, OnlyMoves
<1> QED
    BY <1>1, <1>2, <1>3, <1>4, OneMoves DEF Close, Understood

\* An error that tells what is wrong ends the front end as it should.
LEMMA WrongEnds ==
    ASSUME NEW f \in FrontEnd, UNCHANGED <<request, world>>, NEW error \in Wrong,
           at'[f] = "done", outcome'[f] = [NoOutcome EXCEPT !.kind = error]
    PROVE  FrontInv(f)'
BY SameRequest DEF FrontInv, Ended, NoOutcome

LEMMA CallKnows ==
    ASSUME FrontEndsTypeOK, Understood, Statable, NEW f \in Bindings, NEW error, at[f] = "start",
        Ready(f),
           GoOn(f, error, "native"), UNCHANGED <<request, world, handles, asked>>,
           error = IF request.op = "validate" /\ NoTarget THEN "argument"
                   ELSE IF request.op = "validate" /\ request.limit = "negative" THEN "argument"
                   ELSE "none"
    PROVE  Understood'
<1>1. f \in FrontEnd /\ DOMAIN at = FrontEnd /\ DOMAIN outcome = FrontEnd
    BY DEF FrontEndsTypeOK, Bindings
<1>2. OnlyMoves(f)
    BY <1>1 DEF OnlyMoves, GoOn
<1>3. FrontInv(f) /\ HandlesInv(f)
    BY <1>1 DEF Understood
<1>4. outcome[f] = NoOutcome
    BY <1>3 DEF FrontInv
<1>5. CASE error = "none"
    <2>1. WrapperContent
        BY <1>5 DEF WrapperContent
    <2>2. at'[f] = "native" /\ outcome'[f] = NoOutcome
        BY <1>1, <1>4, <1>5 DEF GoOn
    <2>3. FrontInv(f)'
        BY <1>2, <2>1, <2>2, SameRequest DEF FrontInv, OnlyMoves
    <2>4. HandlesInv(f)'
        BY <1>2, <1>3, <2>2, SameRequest DEF HandlesInv, OnlyMoves, Ready
    <2> QED
        BY <1>1, <1>2, <2>3, <2>4, OneMoves DEF Understood
<1>6. CASE error # "none"
    <2>1. error \in Wrong
        BY <1>6 DEF Wrong
    <2>2. at'[f] = "done" /\ outcome'[f] = [NoOutcome EXCEPT !.kind = error]
        BY <1>1, <1>4, <1>6 DEF GoOn
    <2>3. FrontInv(f)'
        BY <1>1, <1>2, <2>1, <2>2, WrongEnds DEF OnlyMoves
    <2>4. HandlesInv(f)'
        BY <1>2, <1>3, <2>2, SameRequest DEF HandlesInv, OnlyMoves
    <2> QED
        BY <1>1, <1>2, <2>3, <2>4, OneMoves DEF Understood
<1> QED
    BY <1>5, <1>6

\* What the bindings make sure of in Rust, whatever the language.
LEMMA NativeChecks ==
    ASSUME Typed, Statable, WrapperContent, NEW error,
           error = PythonNative \/ error = NodeNative
    PROVE  /\ error = "none" /\ request.op # "compile" => BindingContent
           /\ error = "none" /\ request.op = "compile" => Wrong = {}
           /\ error # "none" => error \in Wrong
<1>1. request \in RequestType /\ world \in World
    BY DEF Typed
<1>2. TimeoutSent = request.timeout
    BY DEF TimeoutSent, Statable
<1>3. CASE request.op = "schema"
    <2>1. error = "none"
        BY <1>3 DEF PythonNative, NodeNative
    <2>2. BindingContent
        BY <1>3 DEF BindingContent, WrapperContent, Wrong
    <2> QED
        BY <1>3, <2>1, <2>2
<1>4. CASE request.op = "compile"
    <2>1. error = IF Prepare # "none" THEN Prepare ELSE IF ~ world.compiles THEN "compile"
        ELSE "none"
        BY <1>4, PythonCompileIs, NodeCompileIs
    <2>2. ByShapes
        BY <1>4 DEF Statable
    <2>3. ~ ByManifest
        BY <2>2 DEF ByShapes, ByManifest
    <2>4. error # "none" => error \in Wrong
        BY <1>4, <2>1, <2>2, <2>3, PrepareIs DEF Wrong
    <2>5. error = "none" => Wrong = {}
        BY <1>4, <2>1, <2>2, <2>3, PrepareIs DEF Wrong, NeedsHandle
    <2> QED
        BY <1>4, <2>4, <2>5
<1>5. CASE request.op = "validate"
    <2>1. error = IF Refused(request.timeout) THEN "argument"
                  ELSE IF ByManifest /\ BindingManifest # "none" THEN BindingManifest
                  ELSE IF ByShapes /\ Prepare # "none" THEN Prepare
                  ELSE "none"
        BY <1>2, <1>5, PythonValidateIs, NodeValidateIs
    <2>2. error # "none" => error \in Wrong
        <3>1. CASE Refused(request.timeout)
            BY <1>5, <2>1, <3>1 DEF Wrong, Refused
        <3>2. CASE ~ Refused(request.timeout) /\ ByManifest /\ BindingManifest # "none"
            BY <1>5, <2>1, <3>2, BindingManifestIs DEF Wrong, Unreadable
        <3>3. CASE ~ Refused(request.timeout) /\ ByShapes /\ Prepare # "none"
            BY <1>5, <2>1, <3>3, PrepareIs DEF Wrong, ByShapes, ByManifest
        <3> QED
            BY <2>1, <3>1, <3>2, <3>3 DEF ByShapes, ByManifest
    <2>3. ASSUME error = "none" PROVE BindingContent
        <3>1. ~ Refused(request.timeout)
            BY <2>1, <2>3
        <3>2. ByManifest => request.text = "whole"
            BY <1>1, <2>1, <2>3, BindingManifestIs DEF Unreadable, RequestType
        <3>3. ByShapes => request.names /\ request.schema # "broken object"
            BY <2>1, <2>3, PrepareIs DEF ByShapes, ByManifest
        <3>4. request.timeout \in {"none", "positive"}
            BY <1>1, <3>1 DEF Refused, RequestType
        <3>5. ByManifest \/ ByShapes
            BY <1>1, <1>5 DEF WrapperContent, NoTarget, ByManifest, ByShapes, RequestType
        <3>6. "manifest" \notin Wrong
            BY <3>2 DEF Wrong
        <3>7. "argument" \notin Wrong
            BY <1>5, <3>3, <3>4, <3>5 DEF Wrong, WrapperContent
        <3> QED
            BY <1>5, <3>3, <3>6, <3>7 DEF BindingContent
    <2> QED
        BY <1>5, <2>2, <2>3
<1> QED
    BY <1>1, <1>3, <1>4, <1>5 DEF RequestType

LEMMA NativeKnows ==
    ASSUME FrontEndsTypeOK, Understood, Statable, NEW f \in Bindings, NEW error, Native(f, error),
           error = PythonNative \/ error = NodeNative
    PROVE  Understood'
<1>1. f \in FrontEnd /\ DOMAIN at = FrontEnd /\ DOMAIN outcome = FrontEnd
    BY DEF FrontEndsTypeOK, Bindings
<1>2. OnlyMoves(f)
    BY <1>1 DEF OnlyMoves, Native, GoOn
<1>3. FrontInv(f) /\ HandlesInv(f) /\ at[f] = "native"
    BY <1>1 DEF Understood, Native
<1>4. outcome[f] = NoOutcome /\ WrapperContent
    BY <1>3 DEF FrontInv
<1>5. CASE error = "none" /\ request.op = "compile"
    <2>1. Wrong = {}
        BY <1>4, <1>5, NativeChecks, TypeIsTyped
    <2>2. at'[f] = "done" /\ outcome'[f] = [NoOutcome EXCEPT !.kind = "compilation"]
        BY <1>1, <1>4, <1>5 DEF Native
    <2>3. outcome'[f] = [kind |-> Success, limit |-> LimitOf(f)]
        BY <1>5, <2>2 DEF NoOutcome, Success, LimitOf
    <2>4. FrontInv(f)'
        BY <1>1, <1>2, <2>1, <2>2, <2>3, SameRequest DEF FrontInv, Ended, OnlyMoves
    <2>5. HandlesInv(f)'
        BY <1>2, <1>5, <2>2, SameRequest DEF HandlesInv, OnlyMoves, NeedsHandle
    <2> QED
        BY <1>1, <1>2, <2>4, <2>5, OneMoves DEF Native, Understood
<1>6. CASE error = "none" /\ request.op # "compile"
    <2>1. BindingContent
        BY <1>4, <1>6, NativeChecks, TypeIsTyped
    <2>2. at'[f] = "submit" /\ outcome'[f] = NoOutcome
        BY <1>1, <1>4, <1>6 DEF Native, GoOn
    <2>3. FrontInv(f)'
        BY <1>2, <2>1, <2>2, SameRequest DEF FrontInv, OnlyMoves
    <2>4. HandlesInv(f)'
        BY <1>2, <1>3, <2>2, SameRequest DEF HandlesInv, OnlyMoves, Native
    <2> QED
        BY <1>1, <1>2, <2>3, <2>4, OneMoves DEF Native, Understood
<1>7. CASE error # "none"
    <2>1. error \in Wrong
        BY <1>4, <1>7, NativeChecks, TypeIsTyped
    <2>2. at'[f] = "done" /\ outcome'[f] = [NoOutcome EXCEPT !.kind = error]
        BY <1>1, <1>4, <1>7 DEF Native, GoOn
    <2>3. FrontInv(f)'
        BY <1>1, <1>2, <2>1, <2>2, WrongEnds DEF OnlyMoves
    <2>4. HandlesInv(f)'
        BY <1>2, <1>3, <2>2, SameRequest DEF HandlesInv, OnlyMoves, Native
    <2> QED
        BY <1>1, <1>2, <2>3, <2>4, OneMoves DEF Native, Understood
<1> QED
    BY <1>5, <1>6, <1>7

LEMMA SubmitKnows ==
    ASSUME FrontEndsTypeOK, Understood, NEW f \in Bindings, Submit(f)
    PROVE  Understood'
<1>1. f \in FrontEnd /\ DOMAIN at = FrontEnd /\ DOMAIN outcome = FrontEnd
    BY DEF FrontEndsTypeOK, Bindings
<1>2. OnlyMoves(f)
    BY <1>1 DEF OnlyMoves, Submit, GoOn
<1>3. FrontInv(f) /\ HandlesInv(f) /\ at[f] = "submit"
    BY <1>1 DEF Understood, Submit
<1>4. outcome[f] = NoOutcome /\ BindingContent
    BY <1>3 DEF FrontInv
<1>5. CASE handles[f] = "closed"
    <2>1. at'[f] = "done" /\ outcome'[f] = [kind |-> "closed", limit |-> 0] /\
        handles'[f] = "closed"
        BY <1>1, <1>4, <1>5 DEF Submit, GoOn, NoOutcome
    <2>2. FrontInv(f)'
        BY <1>2, <1>4, <2>1, SameRequest DEF FrontInv, Ended, OnlyMoves
    <2>3. HandlesInv(f)'
        BY <1>2, <2>1, SameRequest DEF HandlesInv, OnlyMoves
    <2> QED
        BY <1>1, <1>2, <2>2, <2>3, OneMoves DEF Submit, Understood
<1>6. CASE handles[f] # "closed"
    <2>1. at'[f] = "queued" /\ outcome'[f] = NoOutcome
        BY <1>1, <1>4, <1>6 DEF Submit, GoOn
    <2>2. FrontInv(f)'
        BY <1>2, <1>4, <2>1, SameRequest DEF FrontInv, OnlyMoves
    <2>3. HandlesInv(f)'
        BY <1>2, <1>3, <2>1, SameRequest DEF HandlesInv, OnlyMoves, Submit
    <2> QED
        BY <1>1, <1>2, <2>2, <2>3, OneMoves DEF Submit, Understood
<1> QED
    BY <1>5, <1>6

\* The end of a command or a job.
LEMMA FinishKnows ==
    ASSUME FrontEndsTypeOK, Understood, NEW f \in FrontEnd, NEW error, Finish(f, error),
           at[f] # "done",
           error = "none" => Wrong = {},
           error # "none" => error \in Wrong
    PROVE  Understood'
<1>1. DOMAIN at = FrontEnd /\ DOMAIN outcome = FrontEnd
    BY DEF FrontEndsTypeOK
<1>2. OnlyMoves(f)
    BY <1>1 DEF OnlyMoves, Finish
<1>3. FrontInv(f) /\ (f \in Bindings => HandlesInv(f))
    BY DEF Understood
<1>4. at'[f] = "done" /\ UNCHANGED handles
    BY <1>1 DEF Finish
<1>5. f \in Bindings => HandlesInv(f)'
    BY <1>2, <1>3, <1>4, SameRequest DEF HandlesInv, OnlyMoves
<1>6. CASE error = "none"
    <2>1. outcome'[f] = [kind |-> Success, limit |-> LimitOf(f)]
        BY <1>1, <1>6 DEF Finish, LimitOf
    <2>2. FrontInv(f)'
        BY <1>2, <1>4, <1>6, <2>1, SameRequest DEF FrontInv, Ended, OnlyMoves
    <2> QED
        BY <1>2, <1>5, <1>6, <2>2, OneMoves
<1>7. CASE error # "none"
    <2>1. outcome'[f] = [NoOutcome EXCEPT !.kind = error]
        BY <1>1, <1>7 DEF Finish
    <2>2. FrontInv(f)'
        BY <1>2, <1>4, <1>7, <2>1, WrongEnds DEF OnlyMoves
    <2>3. asked' = asked
        BY <1>7 DEF Finish
    <2> QED
        BY <1>2, <1>5, <2>2, <2>3, OneMoves DEF Understood
<1> QED
    BY <1>6, <1>7

LEMMA AnswerKnows ==
    ASSUME FrontEndsTypeOK, Understood, Statable, NEW f \in Bindings, AnswerJob(f)
    PROVE  Understood'
<1>1. f \in FrontEnd
    BY DEF Bindings
<1>2. FrontInv(f) /\ HandlesInv(f) /\ at[f] = "queued"
    BY <1>1 DEF Understood, AnswerJob
<1>3. BindingContent
    BY <1>2 DEF FrontInv
<1>4. request \in RequestType /\ world \in World /\ Typed
    BY TypeIsTyped DEF Typed
<1>5. NeedsHandle /\ Opening("yes")
    <2>1. NeedsHandle
        BY <1>3 DEF BindingContent, NeedsHandle
    <2>2. handles[f] \in {"unopened", "open", "closed"}
        BY DEF FrontEndsTypeOK
    <2> QED
        BY <1>2, <2>1, <2>2 DEF HandlesInv
<1>6. ~ Opening("unavailable") /\ ~ Opening("unreachable")
    BY <1>5 DEF Opening
<1>7. CASE request.op = "schema"
    <2>1. WorkerError = IF ~ world.answers THEN "database" ELSE "none"
        BY <1>4, <1>7, WorkerSchemaIs
    <2>2. WorkerError # "none" => WorkerError \in Wrong
        BY <1>7, <2>1 DEF Wrong
    <2>3. WorkerError = "none" => Wrong = {}
        BY <1>6, <1>7, <2>1 DEF Wrong
    <2> QED
        BY <1>1, <1>2, <2>2, <2>3, FinishKnows DEF AnswerJob
<1>8. CASE request.op = "validate"
    <2>1. WorkerError = IF ByShapes /\ Dumps /\ ~ world.answers THEN "database"
                        ELSE IF ByShapes /\ ~ world.compiles THEN "compile"
                        ELSE IF ByManifest /\ request.text = "foreign" THEN "manifest"
                        ELSE "none"
        BY <1>4, <1>8, WorkerValidateIs
    <2>2. WorkerError # "none" => WorkerError \in Wrong
        BY <1>8, <2>1 DEF Wrong
    <2>3. WorkerError = "none" => Wrong = {}
        BY <1>3, <1>6, <1>8, <2>1 DEF Wrong, BindingContent
    <2> QED
        BY <1>1, <1>2, <2>2, <2>3, FinishKnows DEF AnswerJob
<1> QED
    BY <1>3, <1>4, <1>7, <1>8 DEF BindingContent, RequestType

LEMMA ParseArgumentsKnows ==
    ASSUME FrontEndsTypeOK, Understood, Statable, ParseArguments
    PROVE  Understood'
<1> DEFINE f == "cli"
<1>1. f \in FrontEnd /\ f \notin Bindings /\ DOMAIN at = FrontEnd /\ DOMAIN outcome = FrontEnd
    BY DEF FrontEndsTypeOK, Bindings, FrontEnd
<1> HIDE DEF f
<1>2. OnlyMoves(f) /\ at[f] = "start" /\ GoOn(f, CliArguments, "run")
    BY <1>1 DEF OnlyMoves, ParseArguments, GoOn, f
<1>3. Typed /\ FrontInv(f)
    BY <1>1, TypeIsTyped DEF Understood
<1>4. outcome[f] = NoOutcome
    BY <1>2, <1>3 DEF FrontInv
<1>5. CASE CliArguments = "none"
    <2>1. WrapperContent /\ (request.op # "schema" => request.names)
        BY <1>3, <1>5, CliArgumentsIs DEF WrapperContent
    <2>2. at'[f] = "run" /\ outcome'[f] = NoOutcome
        BY <1>1, <1>2, <1>4, <1>5 DEF GoOn
    <2>3. FrontInv(f)'
        BY <1>2, <2>1, <2>2, SameRequest DEF FrontInv, OnlyMoves, f
    <2> QED
        BY <1>1, <1>2, <2>3, OneMoves DEF ParseArguments, Understood
<1>6. CASE CliArguments # "none"
    <2>1. CliArguments \in Wrong
        <3>1. ~ request.names => ~ ByManifest
            BY DEF Statable
        <3> QED
            BY <1>3, <1>6, <3>1, CliArgumentsIs DEF Wrong
    <2>2. at'[f] = "done" /\ outcome'[f] = [NoOutcome EXCEPT !.kind = CliArguments]
        BY <1>1, <1>2, <1>4, <1>6 DEF GoOn
    <2>3. FrontInv(f)'
        BY <1>1, <1>2, <2>1, <2>2, WrongEnds DEF OnlyMoves
    <2> QED
        BY <1>1, <1>2, <2>3, OneMoves DEF ParseArguments, Understood
<1> QED
    BY <1>5, <1>6

LEMMA RunCommandKnows ==
    ASSUME FrontEndsTypeOK, Understood, Statable, RunCommand
    PROVE  Understood'
<1> DEFINE f == "cli"
           error == CASE request.op = "validate" -> CliValidate
                      [] request.op = "schema" -> CliDump
                      [] request.op = "compile" -> CliCompile
<1>1. f \in FrontEnd
    BY DEF FrontEnd
<1>2. Finish(f, error) /\ at[f] = "run"
    BY DEF RunCommand
<1>3. FrontInv(f) /\ Typed
    BY <1>1, TypeIsTyped DEF Understood
<1>4. WrapperContent /\ (request.op # "schema" => request.names)
    BY <1>2, <1>3 DEF FrontInv
<1>5. request \in RequestType /\ world \in World
    BY <1>3 DEF Typed
<1> HIDE DEF f
<1>6. (error = "none" => Wrong = {}) /\ (error # "none" => error \in Wrong)
    <2>1. CASE request.op = "schema"
        <3>1. error = CliDump
            BY <2>1
        <3> HIDE DEF error
        <3>2. error = IF Opening("unavailable") THEN "backend-unavailable"
                      ELSE IF Opening("unreachable") THEN "connection"
                      ELSE IF ~ world.answers THEN "database" ELSE "none"
            BY <1>3, <3>1, CliDumpIs
        <3> QED
            BY <2>1, <3>2 DEF Wrong, NeedsHandle
    <2>2. CASE request.op = "compile"
        <3>1. error = CliCompile
            BY <2>2
        <3> HIDE DEF error
        <3>2. error = IF request.schema = "broken object" THEN "compile"
                      ELSE IF ~ world.compiles THEN "compile" ELSE "none"
            BY <1>3, <3>1, CliCompileIs
        <3>3. ByShapes /\ ~ ByManifest
            BY <2>2 DEF Statable, ByShapes, ByManifest
        <3> QED
            BY <1>4, <2>2, <3>2, <3>3 DEF Wrong, NeedsHandle
    <2>3. CASE request.op = "validate"
        <3>1. error = CliValidate
            BY <2>3
        <3> HIDE DEF error
        <3>2. error = IF Refused(request.timeout) THEN "argument"
                      ELSE IF Opening("unavailable") THEN "backend-unavailable"
                      ELSE IF Opening("unreachable") THEN "connection"
                      ELSE IF ByManifest /\ Unreadable THEN "manifest"
                      ELSE IF ByShapes /\ Dumps /\ ~ world.answers THEN "database"
                      ELSE IF ByShapes /\ request.schema = "broken object" THEN "compile"
                      ELSE IF ByShapes /\ ~ world.compiles THEN "compile"
                      ELSE IF ByManifest /\ request.text = "foreign" THEN "manifest"
                      ELSE "none"
            BY <1>3, <3>1, CliValidateIs
        <3>3. ASSUME error # "none" PROVE error \in Wrong
            BY <2>3, <3>2, <3>3 DEF Wrong, NeedsHandle, Refused, Unreadable
        <3>4. ASSUME error = "none" PROVE Wrong = {}
            <4>1. request.timeout \in {"none", "positive"}
                BY <1>5, <3>2, <3>4 DEF Refused, RequestType
            <4>2. ~ Opening("unavailable") /\ ~ Opening("unreachable")
                BY <3>2, <3>4
            <4>3. ByManifest => request.text = "whole"
                BY <1>5, <3>2, <3>4 DEF Unreadable, RequestType
            <4>4. ByShapes => ~ (Dumps /\ ~ world.answers) /\ request.schema # "broken object"
                              /\ world.compiles
                BY <3>2, <3>4
            <4> QED
                BY <1>4, <2>3, <4>1, <4>2, <4>3, <4>4 DEF Wrong, WrapperContent
        <3> QED
            BY <3>3, <3>4
    <2> QED
        BY <1>5, <2>1, <2>2, <2>3 DEF RequestType
<1> HIDE DEF error
<1> QED
    BY <1>1, <1>2, <1>6, FinishKnows

LEMMA NextFrontEndsInv == ASSUME FrontEndsInv, [FrontEndsNext]_frontEndsVars PROVE FrontEndsInv'
<1>1. FrontEndsTypeOK /\ FrontEndsTypeOK'
    BY FrontEndsTypes DEF FrontEndsInv
<1>2. UNCHANGED <<request, world>>
    BY DEF FrontEndsNext, frontEndsVars, OpenHandle, Close, Submit, AnswerJob, CallPython,
        CallNode, NativePython,
           NativeNode, Native, ParseArguments, RunCommand, Finish
<1>3. Statable' = Statable
    BY <1>2, SameRequest
<1>4. ASSUME Statable PROVE Understood'
    <2> USE <1>1, <1>4
    <2>1. Understood
        BY DEF FrontEndsInv
    <2>2. CASE UNCHANGED frontEndsVars
        <3>1. ASSUME NEW f \in FrontEnd PROVE FrontInv(f)'
            BY <1>2, <2>1, <2>2, OthersKnow DEF frontEndsVars, Understood
        <3>2. ASSUME NEW f \in Bindings PROVE HandlesInv(f)'
            BY <1>2, <2>1, <2>2, OtherHandles DEF frontEndsVars, Understood
        <3>3. asked' # {} => Wrong' = {}
            BY <1>2, <2>1, <2>2, SameRequest DEF frontEndsVars, Understood
        <3> QED
            BY <3>1, <3>2, <3>3 DEF Understood
    <2>3. ASSUME NEW f \in Bindings, OpenHandle(f) PROVE Understood'
        BY <2>1, <2>3, OpenHandleKnows
    <2>4. ASSUME NEW f \in Bindings, Close(f) PROVE Understood'
        BY <2>1, <2>4, CloseKnows
    <2>5. ASSUME NEW f \in Bindings, Submit(f) PROVE Understood'
        BY <2>1, <2>5, SubmitKnows
    <2>6. ASSUME NEW f \in Bindings, AnswerJob(f) PROVE Understood'
        BY <2>1, <2>6, AnswerKnows
    <2>7. "python" \in Bindings /\ "node" \in Bindings
        BY DEF Bindings, FrontEnd
    <2>8. CASE CallPython
        BY <2>1, <2>7, <2>8, CallKnows, PythonWrapperIs DEF CallPython
    <2>9. CASE CallNode
        BY <2>1, <2>7, <2>9, CallKnows, NodeWrapperIs DEF CallNode
    <2>10. CASE NativePython
        BY <2>1, <2>7, <2>10, NativeKnows DEF NativePython
    <2>11. CASE NativeNode
        BY <2>1, <2>7, <2>11, NativeKnows DEF NativeNode
    <2>12. CASE ParseArguments
        BY <2>1, <2>12, ParseArgumentsKnows
    <2>13. CASE RunCommand
        BY <2>1, <2>13, RunCommandKnows
    <2> QED
        BY <2>2, <2>3, <2>4, <2>5, <2>6, <2>8, <2>9, <2>10, <2>11, <2>12, <2>13 DEF FrontEndsNext
<1> QED
    BY <1>1, <1>3, <1>4 DEF FrontEndsInv

LEMMA FrontEndsInvariance == FrontEndsSpec => []FrontEndsInv
BY InitFrontEndsInv, NextFrontEndsInv, PTL DEF FrontEndsSpec

\* The limits of the front ends are the same for every limit that they take.
LEMMA LimitsAgree ==
    ASSUME Typed, request.limit # "negative", NEW f \in FrontEnd, NEW g \in FrontEnd
    PROVE  Limit(f) = Limit(g)
<1>1. request.limit \in {"omitted", "null", "zero", "few"}
    BY DEF Typed, RequestType
<1>2. Limit("cli") = CliLimit /\ Limit("python") = PythonLimit /\ Limit("node") = NodeLimit
    BY DEF Limit
<1>3. ASSUME request.limit = "omitted" PROVE CliLimit = PythonLimit /\ NodeLimit = PythonLimit
    BY <1>3 DEF CliLimit, PythonLimit, NodeLimit, Said
<1>4. ASSUME request.limit = "null" PROVE CliLimit = PythonLimit /\ NodeLimit = PythonLimit
    BY <1>4 DEF CliLimit, PythonLimit, NodeLimit, Said
<1>5. ASSUME request.limit = "zero" PROVE CliLimit = PythonLimit /\ NodeLimit = PythonLimit
    BY <1>5 DEF CliLimit, PythonLimit, NodeLimit, Said
<1>6. ASSUME request.limit = "few" PROVE CliLimit = PythonLimit /\ NodeLimit = PythonLimit
    BY <1>6 DEF CliLimit, PythonLimit, NodeLimit, Said, Few
<1>7. CliLimit = PythonLimit /\ NodeLimit = PythonLimit
    BY <1>1, <1>3, <1>4, <1>5, <1>6
<1> QED
    BY <1>2, <1>7 DEF FrontEnd

LEMMA AgreementOfEnds == ASSUME FrontEndsInv, Statable PROVE FrontEndsAgree
<1>1. Understood /\ Typed
    BY TypeIsTyped DEF FrontEndsInv
<1>2. Success \in {"report", "snapshot", "compilation"}
    BY <1>1 DEF Success, Typed, RequestType
<1>3. ASSUME NEW f \in FrontEnd, Done(f)
      PROVE  \/ outcome[f].kind \in Wrong /\ outcome[f].limit = 0
             \/ Wrong = {} /\ outcome[f].kind = Success /\ outcome[f].limit = LimitOf(f)
    <2>1. FrontInv(f) /\ at[f] = "done" /\ outcome[f].kind # "closed"
        BY <1>1, <1>3 DEF Understood, Done
    <2> QED
        BY <2>1 DEF FrontInv, Ended
<1>4. ASSUME Wrong = {}, NEW f \in FrontEnd, NEW g \in FrontEnd PROVE LimitOf(f) = LimitOf(g)
    <2>1. CASE request.op = "validate"
        <3>1. request.limit # "negative"
            BY <1>4, <2>1 DEF Wrong
        <3> QED
            BY <1>1, <2>1, <3>1, LimitsAgree DEF LimitOf
    <2> QED
        BY <2>1 DEF LimitOf
<1>5. ASSUME NEW f \in FrontEnd, Done(f), NEW g \in FrontEnd, Done(g)
      PROVE  outcome[f].limit = outcome[g].limit
    <2>1. CASE Wrong = {}
        BY <1>3, <1>4, <1>5, <2>1
    <2>2. CASE Wrong # {}
        BY <1>3, <1>5, <2>2
    <2> QED
        BY <2>1, <2>2
<1>6. ASSUME NEW f \in FrontEnd, Done(f)
      PROVE  /\ outcome[f].kind = Success <=> Wrong = {}
             /\ outcome[f].kind # Success => outcome[f].kind \in Wrong
    <2>1. Success \notin Wrong
        BY <1>2 DEF Wrong
    <2> QED
        BY <1>3, <1>6, <2>1
<1> QED
    BY <1>5, <1>6 DEF FrontEndsAgree

LEMMA FirstArguments == ASSUME FrontEndsInv, Statable PROVE ArgumentsComeFirst
<1>1. Understood
    BY DEF FrontEndsInv
<1>2. ASSUME NEW f \in Bindings, outcome[f].kind = "closed" PROVE handles[f] = "closed" /\
    BindingContent
    <2>1. FrontInv(f)
        BY <1>1 DEF Understood, Bindings
    <2>2. "closed" \notin Wrong
        BY DEF Wrong
    <2>4. Success \in {"report", "snapshot", "compilation"}
        BY TypeIsTyped DEF FrontEndsInv, Success, Typed, RequestType
    <2>3. at[f] = "done"
        BY <1>2, <2>1 DEF FrontInv, NoOutcome
    <2> QED
        BY <1>2, <2>1, <2>2, <2>3, <2>4 DEF FrontInv, Ended
<1> QED
    BY <1>1, <1>2 DEF ArgumentsComeFirst, Understood, BindingContent

\* Every request that can be made through each front end is taken by all of them or by none,
\* with the same limit of rows, and refused with an error that tells something wrong with it
\* (main.rs, lib.rs and the wrappers of both bindings), whatever other threads close.
THEOREM FrontEndAgreement == FrontEndsSpec => [](Statable => FrontEndsAgree)
BY FrontEndsInvariance, AgreementOfEnds, PTL

\* Of such a request the arguments are checked before a closed handle is noticed, and no rule
\* is queried when anything is wrong with it.
THEOREM ArgumentsFirst == FrontEndsSpec => [](Statable => ArgumentsComeFirst)
BY FrontEndsInvariance, FirstArguments, PTL
=============================================================================
