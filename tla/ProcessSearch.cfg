SPECIFICATION SearchSpec
CONSTANTS
    NumProcs = 3
    Access <- MCAccess
    MAX_BLOCKING_PROCESSES = 2
    PassRange = 16
    MaxStarts = 2
    MaxSets = 2
    MaxPasses = 3
    MaxFaults = 1
CHECK_DEADLOCK FALSE
INVARIANT SearchTypeOK
PROPERTIES FreshReport ReportIsRight SearchIsDone
