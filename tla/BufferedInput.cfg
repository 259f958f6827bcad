\* A buffer of two bytes over the adapter, made in the middle of a stream whose
\* buffer may fail.
SPECIFICATION BufferedSpec
CONSTANTS
  Start = 2
  Length = 4
  MaxOffset = 9
  MaxRead = 3
  Capacity = 2
  Faulty = TRUE
INVARIANTS TypeOK PastEndConsistent PositionNeverWraps
PROPERTIES ImplementsFile ImplementsRecoverableFile
