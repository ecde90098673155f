SPECIFICATION HashSpec
CONSTANTS
  NumHashes = 3
  NumChunks = 4
  Faults <- AllFaults
INVARIANTS
  HashTypeOK
  NoBufferRace
  ShownDigestsAreTheImages
PROPERTIES
  ProcBufnumStable
  HashThreadReturns
  NoWakeUpLost
CHECK_DEADLOCK FALSE
