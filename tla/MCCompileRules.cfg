CONSTANTS
  Compilations <- MCCompilations
  Candidates <- MCCandidates
  Local <- MCLocal
  ShapeNames <- MCShapeNames
  Hash <- MCHash
  TextRank <- MCTextRank
  MaxLine = 2
  MaxEdits = 1
SPECIFICATION Spec
CHECK_DEADLOCK FALSE
INVARIANT ManifestIsComplete
INVARIANT NothingIsIgnored
PROPERTY NamesSurviveEdits
PROPERTY OutputIsOfOneCompilation
PROPERTY ReorderingChangesNothing
