SPECIFICATION FairSpec
CONSTANTS
  Scancodes <- MCScancodes
  Decode <- MCDecode
  SCANCODE_CAPACITY = 2
  MAX_QUEUED_TASKS = 2
  INPUT_CAPACITY = 4
  MaxKeys = 4
  MaxRead = 2
INVARIANTS NoLostWakeup BytesConserved
PROPERTY EverythingRead
