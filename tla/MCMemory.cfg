SPECIFICATION Spec
CONSTANTS
  PAGE_SIZE = 16
  PMM_MAX_PAGES = 12
  LowPages = 1
  KERNEL_PHYS = 16
  KernelEnd = 45
  BitmapStart = 30
  BitmapEnd = 42
  VPage <- MCVPage
  ENTRIES = 4
  BootTables <- MCBootTables
  NULL = NULL
  HeapPage = 251
  HEAP_MAX = 32
  HDR = 4
  ALIGN = 2
  MIN_SPLIT = 4
  MemoryMaps <- MCMaps
  Sizes = {0, 1, 5, 13}
  UserBase = 6
  BrkSteps = {20}
  BrkWindow = 32
  MmapPages = {2}
  MmapAt = {7, 252}
  MaxHeld = 1
INVARIANTS
  FramesExclusive
  MemoryBacked
  
  
PROPERTIES
  ImplementsAllocator
CHECK_DEADLOCK FALSE
