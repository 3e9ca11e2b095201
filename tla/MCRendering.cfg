CONSTANTS
    ShapesGraphs <- SmallShapes
    PropertyGraphs <- SmallGraphs
    Neo4jDatabases <- SmallNeo4jDatabases
    FalkorDatabases <- SmallFalkorDatabases
    LadybugDatabases <- SmallLadybugDatabases
    NodeKey = "key"
SPECIFICATION Spec
CHECK_DEADLOCK FALSE
INVARIANTS
    RulesReportViolations
    DetailsExplainRows
    QueriesReturnViolations
    ConditionsAreNeverNull
