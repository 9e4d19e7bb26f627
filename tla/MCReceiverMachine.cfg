SPECIFICATION Spec
CONSTANTS
  WordModulus = 4
  Transactions = {1, 2}
  NoTransaction = NoTransaction
  FileNames = {"f", "g"}
  Messages <- MCNoMessages
  Segments <- MCSegments
  EofChecksums = {1, 3}
  EofSizes = {1, 3}
  checksum_type = "CHECKSUM_TYPE_MODULAR"
  MaxOpenings = 2
INVARIANTS
  TypeOK
  LifecycleOrder
  NothingBeforeMetadata
  EndIsReported
  ActiveIsWatched
  ReceivedIsStored
PROPERTIES
  FilesAreGuarded
