SPECIFICATION Spec
CONSTANTS
  MAX_THREADS = 4
  MaxGeneration = 1
  SpawnKinds = {"kernel", "isolated", "user"}
  ExitKinds = {"kernel", "isolated"}
INVARIANTS MemoryAccounted CpuStateIsCurrents
