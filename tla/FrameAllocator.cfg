SPECIFICATION Spec
CONSTANTS
  PAGE_SIZE = 2
  Word = 1024
  DmaPages = 2
  MemoryMap <- MCMemoryMap
  DmaRequest <- MCDmaRequest
INVARIANTS
  FreeCountRight
  HandedOutExclusively
  
