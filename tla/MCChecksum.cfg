SPECIFICATION Spec
CONSTANTS
  Files <- MCFiles
  Leftover = {7, 255}
  CharIsSigned = TRUE
CHECK_DEADLOCK FALSE
INVARIANTS
  TypeOK
  ChecksumIsModular
  ReadsWithinFile
PROPERTIES
  EventuallyEnds
