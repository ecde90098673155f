SPECIFICATION Spec
CONSTANTS
  Threads = {t1, t2}
  num_threads = 2
  Shapes <- MCShapes
  Size <- MCSize
  out_chunk_size = 3
  BUFFER_SIZE = 2
  Jobs <- MCJobs
  INTEGRITY_CHUNK = 4
CHECK_DEADLOCK FALSE
INVARIANTS
  TypeOK
  CrashSafe
  SuccessMeansNew
PROPERTIES
  ChunksInOrder
  Returns
