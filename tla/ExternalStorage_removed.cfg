SPECIFICATION ExtSpec
CONSTANTS
  da = da
  db = db
  ExtDevices <- MCDevices
  ExtKind <- MCKind
  ExtSize <- MCSize
  Content <- MCContent
  EXT_MARGIN = 1
  EXT_SAMPLES = 2
  TROUBLES = 2
  RANDOM_MAX = 2
  ExtFaults <- Removal
INVARIANT DataDestroyed
