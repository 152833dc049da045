SPECIFICATION Spec
CONSTANTS
  PAGE_SIZE = 4
  MAX_PAGES = 6
  KB = 2
  LOW_KB = 4
  UINT = 64
  TLB_SIZE = 2
  PAGE_TABLE_SIZE = 4
  SIM_PAGE_SIZE = 2
  UCHAR = 4
  Bitmaps <- MCBitmaps
  Addresses <- MCAddresses
  MaxTotal = 9
INVARIANTS
  TLBCoherent
  FramesDistinct
  StatisticsAddUp
  CopiesIntact
PROPERTIES
  TLBIsFIFO
  TranslatesAsDemandPaging
CHECK_DEADLOCK FALSE
