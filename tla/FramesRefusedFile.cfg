SPECIFICATION Spec
CONSTANTS
  Kernel = Kernel
  Spaces = {s1}
  NoFrame = NoFrame
  NoJob = NoJob
  Regions <- MCRegions
  Levels = 3
  Entries = 8
  PAGE_SIZE = 2
  CanonicalEnd = 512
  WordSize = 2048
  OffsetIndex = 1
  BootTables <- MCBootTables
  BootPages <- MCBootPages
  HeapPages <- MCHeapPages
  StackPages = 1
  Files <- MCRefusedFiles
  RawPages <- MCRawPages
  MaxLoads = 2
INVARIANT LoadNeverPanics
