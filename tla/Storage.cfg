SPECIFICATION FairSpec
CONSTANTS
  Threads <- Services
  NoThread = none
  EndpointIds <- StorageEndpoints
  Messages <- MCMessages
  ZeroMsg <- MCZeroMsg
  Lines <- MCLines
  Words = 2
  OldBlock <- MCOldBlock
CHECK_DEADLOCK FALSE
INVARIANTS
  SuccessIsTrue
  TransfersInStep
  RepliesHonest
PROPERTIES
  PunctualTestSucceeds
