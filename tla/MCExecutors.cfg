SPECIFICATION Spec
CHECK_DEADLOCK FALSE
CONSTANTS
    Graphs <- MCGraphs
    MaxCalls = 2
    MaxWrites = 2
INVARIANTS
    AnswersAreOwn
    ErrorsAreTrue
    DumpsDescribeWhatStays
PROPERTIES
    BoundedCallsReturn
