CONSTANTS
  Char <- Characters
  MaxPending = 4
  MaxText = 3
  MaxStream = 5
SPECIFICATION Spec
INVARIANT CutsDontShow
\* The output is bounded.
CHECK_DEADLOCK FALSE
