SPECIFICATION StartupSpec
CONSTANTS
  PAGE_SIZE = 4
  MAX_PAGES = 10
  KB = 2
  LOW_KB = 4
  UINT = 128
  HEAP_PAGES = 2
  PAGES = 2
  BootInfos <- MCBootInfos
INVARIANTS
  TypeOK
  ImagesNeverGranted
  FramesApart
  EnoughIsEnough
PROPERTY LendsThePool
