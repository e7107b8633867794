SPECIFICATION FairSpec
CONSTANTS
  MAX_THREADS = 3
  MaxGeneration = 2
  SpawnKinds = {"kernel", "user"}
  ExitKinds = {}
INVARIANTS
  TypeOK RotationInv AssertionsHold OnlyPendingZombie MemoryAccounted
  PanicsOnlyWhenFull
PROPERTIES DeadStaysDead NoStarvation ExitsAreNoticed
