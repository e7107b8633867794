SPECIFICATION Spec
CONSTANTS
  ExitThreads <- MCExitThreads
  IsolatedThreads <- MCIsolatedThreads
  MaxKeys = 1
INVARIANT ReapNeverHangs
