CONSTANT ClassCount = 4
SPECIFICATION Spec
CHECK_DEADLOCK FALSE
INVARIANTS
    RejectsExactlyCycles
    ExpansionIsClosure
PROPERTY BothSearchesEnd
