SPECIFICATION FairProcessSpec
CONSTANTS
  KHEAP_START = 16
  HEAP_BYTES = 76
  HDR = 12
  MARGIN = 4
  PROCESS = 4
  DIRECTORY = 20
  Sizes <- MCSizes
INVARIANTS
  TypeOK
  EveryBlockHasItsOwner
  HeapTiled
  UsedAreLive
  Coalesced
  RestoredWhenEmpty
PROPERTIES
  IsAnAllocator
  CallsReturn
