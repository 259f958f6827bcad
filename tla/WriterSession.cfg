\* A writer after one byte of a stream, on devices that fill up and are freed.
SPECIFICATION Spec
CONSTANTS
  Start = 1
  MaxOffset = 12
  Sizes = {1, 2}
  Rooms = {2, 3, 4, 9}
  Faulty = TRUE
  Capacity = 2
  Points = {7, 8}
  MaxPoints = 3
INVARIANTS NoSilentLoss
PROPERTY ClosedIsFinal
CHECK_DEADLOCK FALSE
