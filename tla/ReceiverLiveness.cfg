SPECIFICATION FairSpec
CONSTANTS
  WordModulus = 4
  Transactions = {1}
  NoTransaction = NoTransaction
  FileNames = {"f"}
  Messages <- MCMessages
  Segments <- MCOneSegment
  EofChecksums = {1}
  EofSizes = {0, 1}
  checksum_type = "CHECKSUM_TYPE_MODULAR"
  MaxOpenings = 2
INVARIANTS
  ListingsAnsweredOnce
PROPERTIES
  EventuallyEnds
