CONSTANTS
    b1 = b1
    b2 = b2
    f1 = f1
    k1 = k1
    k2 = k2
    Owner = Owner
    NoCall = NoCall
    BlockingCalls <- MCBlocking
    CallbackCalls <- MCCallback
    Closers <- MCClosers
SPECIFICATION Spec
CHECK_DEADLOCK FALSE
INVARIANTS
    CloseWaitsForDatabase
    AcceptedJobsAreAnswered
PROPERTIES
    AnswersAreFinal
    EverythingReturns
    ImplementsHandle
