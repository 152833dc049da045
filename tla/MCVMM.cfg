SPECIFICATION Spec
CONSTANTS
  PAGE_SIZE = 4
  MAX_PAGES = 12
  KB = 2
  LOW_KB = 4
  UINT = 128
  PDES = 3
  PTES = 2
  KERNEL_PDE = 1
  BOOT_TABLE = 2
  HEAP_PAGES = 2
  Boot = boot
  Dirs = {d1, d2}
  Reserved <- MCReserved
  Available = 12
  DataFrames <- MCDataFrames
  FlagSets <- MCOneFlag
  TLBPages <- MCNoPages
INVARIANTS
  TablesExclusive
  HeapFramesPrivate
  OnlyWhatWasMapped
  FramesAccountedFor
PROPERTY AreAddressSpaces
