SPECIFICATION FairSpec
CONSTANTS
  WordModulus = 4
  entity_id = 1
  peer = 2
  SourceFiles = {"a"}
  TargetFiles = {"x"}
  Contents <- MCTwoSegments
  MaxFileData = 2
  CFDP_ALIGNMENT_SIZE = 2
  checksum_type = "CHECKSUM_TYPE_MODULAR"
  NoTransaction = NoTransaction
  NetworkFaults <- MCNoFaults
  MaxPuts = 1
  MaxSuspensions = 1
  MaxOpenings = 4
CHECK_DEADLOCK FALSE
PROPERTIES
  WhatIsSentArrives
  EveryTransferIsSettled
