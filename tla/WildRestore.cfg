SPECIFICATION Spec
CONSTANTS
  MaxThreads = 2
  MaxEndpoints = 1
  MaxMsgs = 2
  Irq = {1}
  StackDepth <- MCStackDepth
  BootCSpace <- MCBootCSpace
  EpHandle <- MCAllCaps
INVARIANT RestoresSavedContext
