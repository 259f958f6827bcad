\* The adapter made after one byte of a stream, over devices that fill up or not.
SPECIFICATION AdapterSpec
CONSTANTS
  Start = 1
  MaxOffset = 5
  Sizes = {1, 2}
  Rooms = {3, 4}
  Writes <- MCWrites
  Faulty = TRUE
INVARIANTS PrefixUntouched
PROPERTY ImplementsFile
