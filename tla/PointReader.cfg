\* Every number of declared and of present points, over a stream that may fail.
SPECIFICATION FairSpec
CONSTANTS
  MaxU64 = 4
  BATCH_POINTS = 2
  Faulty = TRUE
INVARIANTS BatchesFollowData
PROPERTIES ImplementsSource ReadsEnd
