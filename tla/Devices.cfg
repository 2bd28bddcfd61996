SPECIFICATION DevicesSpec
CONSTANTS
  Threads = {"keyboard"}
  NoThread = none
  EndpointIds = {}
  Messages = {zero}
  ZeroMsg = zero
  Lines = {1}
  MaxScancodes = 4
  Ring = 32
  Lengths <- MCLengths
  TxBase = 64
  Ids = 4
  Width = 36
  Height = 30
  MaxY = 40
  Names = {"init", "ata_service"}
  Sizes = {0, 1, 512, 513}
  MaxMembers = 2
  Bytes = {0, 1, 128, 255}
  MaxLength = 5
INVARIANTS
  
  InStep
  NothingOverwritten
  ReceiverAccepts
PROPERTIES
  NoByteStuck
  ShowsText
  FindsTheFile
CHECK_DEADLOCK FALSE
