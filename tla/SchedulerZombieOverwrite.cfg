SPECIFICATION Spec
CONSTANTS
  MAX_THREADS = 3
  MaxGeneration = 1
  SpawnKinds = {"kernel"}
  ExitKinds = {"kernel"}
INVARIANT OnlyPendingZombie
