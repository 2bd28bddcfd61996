SPECIFICATION Spec
CONSTANTS
  MaxThreads = 2
  MaxEndpoints = 1
  MaxMsgs = 2
  Irq = {}
  StackDepth <- MCStackDepth
  BootCSpace <- MCNoCaps
  EpHandle <- MCAllCaps
INVARIANT SendBlocksUntilTaken
