CONSTANT Request <- MCRequest
SPECIFICATION FrontEndsSpec
CHECK_DEADLOCK FALSE
INVARIANT FrontEndsAgree
INVARIANT ArgumentsComeFirst
