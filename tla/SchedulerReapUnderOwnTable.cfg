SPECIFICATION Spec
CONSTANTS
  MAX_THREADS = 3
  MaxGeneration = 2
  SpawnKinds = {"isolated"}
  ExitKinds = {"isolated"}
INVARIANT HeapMapped
