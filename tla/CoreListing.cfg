SPECIFICATION Spec
CONSTANTS
  Ends <- MCEnds
  EntityId <- MCEntityId
  Requests <- MCRequests
  Foreign <- MCResponses
  FileChecksum <- MCFileChecksum
  Unknown <- MCUnknown
  ListingFile <- MCListingFile
  Silence = Silence
  Unread = Unread
  SegmentSize = 251
  FirstNumber = 254
  MaxPuts <- MCMaxPuts
  MaxInFlight = 2
INVARIANTS
  ListingIndicationMatches
