SPECIFICATION FairSpec
CONSTANTS
  ExitThreads <- MCNoThreads
  IsolatedThreads <- MCNoThreads
  MaxKeys = 1
INVARIANTS
  TypeOK MaskedLocksUncontended NoHangOnceUp HandedOverIntact InterruptsReady
PROPERTY KeyRunsCommand
