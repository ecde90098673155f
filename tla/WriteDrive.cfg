SPECIFICATION Spec
CONSTANTS
  SectorSize = 2
  DiskSize = 10
  buf_size = 4
  WRITE_RETRIES = 3
  THROTTLE = 1
  BADBLOCK_BLOCK_SIZE = 2
  BB_BLOCKS_AT_ONCE = 2
  BB_BAD_BLOCKS_THRESHOLD = 3
  Patterns <- MCPatterns
  MaxCuts = 1
  MaxChecks = 2
  Jobs <- MCJobs
  Contents <- MCContents
  Media <- MCMedia
INVARIANTS
  TypeOK
  CheckIsRight
  BehindIsDone
  TrueMeansWhole
PROPERTY
  Returns
