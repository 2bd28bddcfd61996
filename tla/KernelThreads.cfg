SPECIFICATION FairSpec
CONSTANTS
  MaxThreads = 3
  MaxEndpoints = 0
  MaxMsgs = 0
  Irq = {1}
  StackDepth <- MCStackDepth
  BootCSpace <- MCBootCSpace
  EpHandle <- MCAllCaps
INVARIANTS
  KernelStackIsCurrents
  NobodyWaitsOnTheDead
  NoMissedIrq
PROPERTIES
  ReadyRuns
  CooperativeSwitchesSound
  ThreadsFollowLifecycle
