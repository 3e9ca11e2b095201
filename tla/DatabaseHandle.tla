--------------------------- MODULE DatabaseHandle ---------------------------
(***************************************************************************)
(* What a database handle promises to the threads that share it, with no   *)
(* word of queues, channels, locks or threads:                             *)
(*                                                                         *)
(*  - jobs run one at a time;                                              *)
(*  - a call is answered with a result, or told that the handle is closed; *)
(*    it is told so only when the handle has stopped accepting or has      *)
(*    crashed, and a call that was accepted is lost only to a crash;       *)
(*  - close returns only once the database is closed, which happens only   *)
(*    when no accepted job is left.                                        *)
(*                                                                         *)
(* DatabaseWorker implements this specification.                           *)
(***************************************************************************)

CONSTANTS Calls,        \* the calls (validate, schema) made on the handle
          CloseThreads  \* the threads that close or drop the handle

VARIABLES status,       \* how far each call is
          service,      \* the state of the database behind the handle
          closing       \* how far each closing thread is

vars == <<status, service, closing>>

CallStatus == {"idle", "requested", "accepted", "running", "answered", "closed"}
ServiceState == {"opening", "failed", "open", "closing", "crashed", "closed"}

TypeOK ==
    /\ status \in [Calls -> CallStatus]
    /\ service \in ServiceState
    /\ closing \in [CloseThreads -> {"idle", "closing", "returned"}]

Init ==
    /\ status = [c \in Calls |-> "idle"]
    /\ service = "opening"
    /\ closing = [k \in CloseThreads |-> "idle"]

-----------------------------------------------------------------------------
Unfinished == {c \in Calls : status[c] \in {"accepted", "running"}}

Move(c, to) == /\ status' = [status EXCEPT ![c] = to]
               /\ UNCHANGED <<service, closing>>

Open(outcome) ==
    /\ service = "opening"
    /\ service' = outcome
    /\ UNCHANGED <<status, closing>>

Request(c) == /\ status[c] = "idle"
              /\ service \notin {"opening", "failed"}
              /\ Move(c, "requested")

\* A crashing handle may still accept a job; it is then lost.
Accept(c) == /\ status[c] = "requested"
             /\ service \in {"open", "crashed"}
             /\ Move(c, "accepted")

Start(c) == /\ status[c] = "accepted"
            /\ service \in {"open", "closing"}
            /\ \A d \in Calls : status[d] # "running"
            /\ Move(c, "running")

Answer(c) == /\ status[c] = "running"
             /\ Move(c, "answered")

Refuse(c) == /\ status[c] = "requested"
             /\ service \in {"closing", "crashed", "closed"}
             /\ Move(c, "closed")

\* The job being run brings the database down and is lost with it.
Crash(c) == /\ status[c] = "running"
            /\ service \in {"open", "closing"}
            /\ status' = [status EXCEPT ![c] = "closed"]
            /\ service' = "crashed"
            /\ UNCHANGED closing

Lose(c) == /\ status[c] = "accepted"
           /\ service = "crashed"
           /\ Move(c, "closed")

-----------------------------------------------------------------------------
BeginClose(k) ==
    /\ closing[k] = "idle"
    /\ service \notin {"opening", "failed"}
    /\ closing' = [closing EXCEPT ![k] = "closing"]
    /\ UNCHANGED <<status, service>>

StopAccepting ==
    /\ service = "open"
    /\ \E k \in CloseThreads : closing[k] = "closing"
    /\ service' = "closing"
    /\ UNCHANGED <<status, closing>>

CloseDatabase ==
    /\ service \in {"closing", "crashed"}
    /\ Unfinished = {}
    /\ service' = "closed"
    /\ UNCHANGED <<status, closing>>

EndClose(k) ==
    /\ closing[k] = "closing"
    /\ service = "closed"
    /\ closing' = [closing EXCEPT ![k] = "returned"]
    /\ UNCHANGED <<status, service>>

-----------------------------------------------------------------------------
CallStep(c) == \/ Request(c) \/ Accept(c) \/ Start(c) \/ Answer(c)
               \/ Refuse(c) \/ Crash(c) \/ Lose(c)

Next ==
    \/ \E outcome \in {"open", "failed"} : Open(outcome)
    \/ \E c \in Calls : CallStep(c)
    \/ \E k \in CloseThreads : BeginClose(k) \/ EndClose(k)
    \/ StopAccepting
    \/ CloseDatabase

\* Every call that was made is taken to its end, and so is every close.
Fairness ==
    /\ \A c \in Calls : WF_vars(\/ Accept(c) \/ Start(c) \/ Answer(c)
                                \/ Refuse(c) \/ Crash(c) \/ Lose(c))
    /\ WF_vars(StopAccepting)
    /\ WF_vars(CloseDatabase)
    /\ \A k \in CloseThreads : WF_vars(EndClose(k))

SafeSpec == Init /\ [][Next]_vars

Spec == SafeSpec /\ Fairness
=============================================================================
