SPECIFICATION Spec
CONSTANTS
  Count = 4
  Fields <- MCFields
INVARIANTS
  TypeOK
  RestIsZero
  ReadsWhatWasWritten
PROPERTIES
  ImplementsBitQueue
