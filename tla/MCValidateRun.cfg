CONSTANTS
    RuleCount = 2
    MaxViolations = 2
    MaxWrites = 1
    Limit = 1
    Severities <- MCSeverities
SPECIFICATION Spec
CHECK_DEADLOCK FALSE
INVARIANTS
    VerdictIsTrue
    ExitCodeIsTrue
    ResultsWereHeld
PROPERTY JobSettles
