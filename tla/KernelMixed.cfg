SPECIFICATION Spec
CONSTANTS
  MaxThreads = 2
  MaxEndpoints = 1
  MaxMsgs = 2
  Irq = {1}
  StackDepth <- MCStackDepth
  BootCSpace <- MCBootCSpace
  EpHandle <- MCAnyHandle
INVARIANTS
  TypeOK
  
  ThreadInOnePlace
PROPERTIES
  HandlesStable
  WokenByItsEvent
  KernelOffersCalls
