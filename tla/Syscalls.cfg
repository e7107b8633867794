SPECIFICATION Spec
CONSTANTS
  t1 = t1
  t2 = t2
  Threads = {t1, t2}
  Shell = t1
  Files <- MCFiles
  Names <- MCNames
  NoFile = NoFile
  MAX_OPEN_FILES = 2
  READ_MAX = 2
  WRITE_MAX = 2
  PATH_MAX = 2
  INPUT_QUEUE_CAPACITY = 2
  PageSize = 2
  CanonicalEnd = 16
  WordSize = 64
  Access <- MCAccess
  Buffers <- MCBuffers
  MaxTyped = 3
INVARIANTS
  TypeOK
  ReadsInOrder
  NoKernelFault
PROPERTY
  OpenFilesKept
\* All programs may have exited, with nobody left to start another.
CHECK_DEADLOCK FALSE
