SPECIFICATION MCSpec
CONSTANTS
  NrSector = 3
  WordsPerSector = 2
  Val <- MCVal
  NR_SEC_BUF = 2
  HZ = 2
  None = None
  Calls <- MCCalls
INVARIANTS
  TypeOK
  CleanIsOnDisk
  DeviceNotMisusedAlone
  WaitdiskEnds
PROPERTIES
  DirtyIsWrittenBack
  ImplementsSectorStore
CONSTRAINT Followed
CHECK_DEADLOCK FALSE
