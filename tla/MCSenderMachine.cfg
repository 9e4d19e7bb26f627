SPECIFICATION FairSpec
CONSTANTS
  WordModulus = 4
  entity_id = 1
  Destinations = {1, 2}
  Encodable = {1}
  SourceFiles = {"src"}
  TargetFiles = {"dst"}
  Contents <- MCShortAndLong
  Listings <- MCListing
  MaxFileData = 2
  CFDP_ALIGNMENT_SIZE = 2
  checksum_type = "CHECKSUM_TYPE_MODULAR"
  MaxPuts = 2
  MaxSuspensions = 1
INVARIANTS
  TypeOK
  EndIsReported
  IndicationsMatchWire
  SuspensionBalance
  NoLostWakeup
  RecursionBounded
  SegmentsAreEncodable
PROPERTIES
  ImplementsClass1Stream
  QuietWhileHeld
  EventuallyEnds
