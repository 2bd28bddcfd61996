SPECIFICATION MemorySpec
CONSTANTS
  PAGE_SIZE = 4
  Word = 1024
  DmaPages = 2
  MemoryMap <- MCMemoryMap
  DmaRequest <- MCDmaRequest
  MaxProcesses = 2
  MaxHandles = 3
  Image <- MCImage
  StackPages = 1
  StackTop = 16
  MapBase = 4
  SlotPages = 2
  TablePages = 4
  BootRange <- MCBootRange
  MapRequest <- MCMapRequest
INVARIANTS
  MappingsCovered
  
  ImageLoaded
  NoFrameLost
CHECK_DEADLOCK FALSE
