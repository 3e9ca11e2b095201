CONSTANTS
    Paths <- SmallPaths
    Depth <- SmallDepth
    MaxDepth = 3
    Questions <- SmallQuestions
    LocalName <- SmallLocalName
    UpperSnake <- SmallUpperSnake
    MaxPathDepth = 1
    Nodes = {1, 2}
    Values = {10}
    Keys = {"knows", "name"}
    RelTypes = {"KNOWS", "NAME"}
    MaxWrites = 3
SPECIFICATION MappingSpec
CHECK_DEADLOCK FALSE
INVARIANTS
    MappedPathMeansShaclPath
    DeclaredPropertiesStayProperties
