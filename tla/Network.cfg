SPECIFICATION Spec
CONSTANTS
  Threads <- Programs
  NoThread = none
  EndpointIds <- NetworkEndpoints
  Messages <- MCMessages
  ZeroMsg <- ZeroMessage
  Lines <- MCLines
  Hosts = {host1, host2}
  Incoming <- MCPackets
  MaxHurried = 1
SYMMETRY MCSymmetry
CHECK_DEADLOCK FALSE
INVARIANTS
  
  
  QuietPacketsEchoed
