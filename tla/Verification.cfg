SPECIFICATION VerifySpec
CONSTANTS
  da = da
  db = db
  dc = dc
  VerifyDevices <- MCDevices
  VerifySize <- MCSize
  Contents <- MCContents
  VERIFY_MARGIN = 5
  PROGRESS = 1
  PATTERN_SAMPLES <- MCSamples
  ENTROPY_SAMPLES <- MCOne
  RANDOM_MAX = 3
  VerifyFaults <- AllFaults
INVARIANTS
  VerifyTypeOK
  VerdictIsFounded
  SamplesOfThisDevice
