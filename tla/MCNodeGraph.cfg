CONSTANTS
  Nodes <- FourNodes
  MaxFaults = 1
SPECIFICATION FairSpec
INVARIANTS
  TypeOK
  RunsAfterUpstreams
  AgreesWithSequential
  VerdictIsHonest
  RowsCountUpstreams
  CancelLandsAtBoundary
  RowsTellOutcomes
PROPERTIES
  RowsAdvance
  RunConcludes
