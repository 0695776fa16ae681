SPECIFICATION Spec
CONSTANTS
  Name = {"a", "b"}
  Data = {"old", "new", "newer"}
  MaxDepth = 2
  InitialTree <- MCFile
  Typed <- MCTyped
  MaxMoves = 6
  MaxLength = 1
CHECK_DEADLOCK FALSE
INVARIANT UnsavedIsMarked
