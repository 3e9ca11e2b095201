CONSTANTS
    Paths <- SmallPaths
    MaxDepth = 4
    Questions <- SmallQuestions
    IntegerBounds <- SmallBounds
    Nodes = {1, 2, 3, 4, 5}
    LabelOf <- SmallLabelOf
    Types = {"KNOWS", "WORKS_FOR", "LOCATED_IN", "OWNS"}
    Keys = {"name", "age", "tags"}
    Values <- SmallValues
    MaxWrites = 3
    MaxFreeWrites = 1
SPECIFICATION Spec
CHECK_DEADLOCK FALSE
INVARIANTS
    GuaranteedNeverViolated
    ContradictedNeverHolds
    MismatchesAreReal
