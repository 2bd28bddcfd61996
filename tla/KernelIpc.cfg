SPECIFICATION Spec
CONSTANTS
  MaxThreads = 3
  MaxEndpoints = 1
  MaxMsgs = 2
  Irq = {}
  StackDepth <- MCStackDepth
  BootCSpace <- MCNoCaps
  EpHandle <- MCAllCaps
INVARIANTS
  WaitingMessagesInOrder
PROPERTIES
  EndpointsAreRendezvous
