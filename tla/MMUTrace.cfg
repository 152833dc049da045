SPECIFICATION TraceSpec
CONSTANTS
  PAGE_SIZE = 4096
  MAX_PAGES = 1024
  KB = 1024
  LOW_KB = 1024
  UINT = 268435456
  TLB_SIZE = 16
  PAGE_TABLE_SIZE = 256
  SIM_PAGE_SIZE = 256
  UCHAR = 256
INVARIANT
  LogIsTrue
PROPERTY
  GabaritoReached
CHECK_DEADLOCK FALSE
