SPECIFICATION Spec
CONSTANTS
  Name = {"a", "b"}
  Data = {"old", "new", "newer"}
  MaxDepth = 2
  InitialTree <- MCTree
  Typed <- MCTyped
  MaxMoves = 5
  MaxLength = 1
CHECK_DEADLOCK FALSE
INVARIANTS
  TypeOK
  WaitersAreOwed
  DisconnectedIsBare
  TreeAgrees
PROPERTY ModifiedSurvives
