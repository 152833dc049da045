SPECIFICATION LoaderSpec
CONSTANTS
  PAGE_SIZE = 4
  MAX_PAGES = 12
  KB = 2
  LOW_KB = 2
  UINT = 128
  PDES = 3
  PTES = 6
  KERNEL_PDE = 1
  BOOT_TABLE = 2
  HEAP_PAGES = 2
  Boot = boot
  Dirs = {d1}
  Reserved <- MCReserved
  Available = 12
  DataFrames <- MCDataFrames
  FlagSets <- MCFlags
  TLBPages <- MCTLBPages
  CODE = 1
  DIRECTORY = 3
  STACK = 4
INVARIANTS
  StandsOnItsFeet
  LeavesBootSpace
  StaleOnlyFromLoader
