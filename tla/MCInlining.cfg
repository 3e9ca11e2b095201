CONSTANTS
    ShapeCount = 4
    MaxDeactivated = 1
    ShapeGraphs <- SmallGraphs
SPECIFICATION LoweringSpec
CHECK_DEADLOCK FALSE
INVARIANTS
    RecursionIsRecorded
    EveryGroupReportedOnce
    CyclesAreShortest
PROPERTY StrictLoweringEnds
