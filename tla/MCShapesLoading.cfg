CONSTANTS
    PathCount = 3
    IriCount = 4
    Worlds <- MCWorlds
    Arguments <- MCArguments
SPECIFICATION Spec
CHECK_DEADLOCK FALSE
INVARIANTS
    LoadedIsImportClosure
    GivenComeFirst
PROPERTY LoadingEnds
