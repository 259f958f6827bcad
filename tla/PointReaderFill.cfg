\* The memory bound limits.rs states of point reads, on calls of fill_points too.
SPECIFICATION Spec
CONSTANTS
  MaxU64 = 4
  BATCH_POINTS = 2
  Faulty = FALSE
INVARIANT PointReadsFollowData
