\* Vectors of up to two points, valid and not, with a coordinate that is stored as
\* it is, one that is rounded and one that does not fit; a usize of six bits, so most
\* products wrap; two axes, and two points to a box; keys of three bits, whose
\* positive values depth 2 uses up; two COPC files that share keys but not places.
SPECIFICATION Spec
CONSTANTS
  Xs = {0, 1, 3}
  Scale = 2
  MaxRaw = 1
  Numbers = {0, 1}
  Optional = {"gps_time"}
  Directions = {1, 2}
  Classes = {2, 12}
  Bytes = {1, 2}
  MaxExtra = 2
  MaxPoints = 2
  USizeBits = 6
  RecordLens = {1, 3, 5, 8}
  Axes = {x, y}
  Boxes = {b}
  Limit = 3
  MaxGrowth = 3
  NaN = NaN
  Walkers = {v, w}
  KeyBits = 3
  MaxDepth = 2
  Readers = {r1, r2}
  Children = {c1, c2}
  Offsets = {1, 2}
  MaxCount = 1
  MaxPage = 2
  None = None
INVARIANTS BuffersInStep ReadsBack SmallestBox CellsFollowTree ReadsOwnChunks
           QueryVisitsSelected ListsWholePage
PROPERTIES CallReturns ResizesExactly
CHECK_DEADLOCK FALSE
