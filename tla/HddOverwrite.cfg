SPECIFICATION HddSpec
CONSTANTS
  da = da
  db = db
  Drives <- MCDrives
  Native = 4
  HDD_MARGIN = 1
  HDD_SAMPLES = 2
  RANDOM_MAX = 3
  HddFaults <- AllFaults
INVARIANTS
  HddTypeOK
  HpaRestored
  ReportIsTrue
