SPECIFICATION Spec
CONSTANTS
  Name = {"a", "b"}
  Data = {"old", "new"}
  MaxDepth = 3
  Target <- MCTarget
  Aim <- MCAim
  InitialTrees <- MCTrees
  MaxCalls = 2
  MaxEdits = 1
CHECK_DEADLOCK FALSE
INVARIANT TypeOK
PROPERTIES
  OnlyNamedPathsChange
  OkMeansEffect
  FailureIsContained
  RemovedIsGone
  MockAgrees
