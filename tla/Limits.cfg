\* Every file of up to MaxI64 bytes, over a stream that may fail.  The code's
\* 60, 20, 8, 4 and 20 bytes are scaled to 3, 1, 2, 1 and 2.
SPECIFICATION Spec
CONSTANTS
  MaxI64 = 7
  MaxU32 = 2
  RAW_HEADER_SIZE = 1
  EVLR_HEADER_SIZE = 3
  EVLR_RECORD_LENGTH_OFFSET = 1
  WORD = 1
  MIN_LAZ_CHUNK_SIZE = 2
  Faulty = TRUE
INVARIANTS AllocationsFitData StreamRestored WalkBoundedByData RejectsOnlyDefects
PROPERTY OpenEnds
CHECK_DEADLOCK FALSE
