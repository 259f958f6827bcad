\* Two threads, calls nested three deep.
SPECIFICATION ReportingSpec
CONSTANTS
  Threads = {t1, t2}
  Messages = {m1, m2}
  Empty = Empty
  MaxDepth = 3
SYMMETRY Symmetry
INVARIANTS StatusBelongsToTop CaughtErrorIsOwn
