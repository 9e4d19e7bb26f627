SPECIFICATION Spec
CONSTANTS
  Ends <- MCEnds
  EntityId <- MCEntityId
  Requests <- MCRequests
  Foreign <- MCForeign
  FileChecksum <- MCFileChecksum
  Unknown <- MCUnknown
  ListingFile <- MCListingFile
  Silence = Silence
  Unread = Unread
  SegmentSize = 251
  FirstNumber = 254
  MaxPuts <- MCMaxPuts
  MaxInFlight = 2
INVARIANTS
  TypeOK
  LengthSpansPdu
PROPERTIES
  ImplementsChannel
  Class2Refused
  CancelEndsWhatItNames
