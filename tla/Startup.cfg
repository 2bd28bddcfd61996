SPECIFICATION StartupSpec
CONSTANTS
  Entries <- MCEntries
  MaxEntries = 2
  NicLines = {0, 10, 11}
  t1 = t1
  t2 = t2
  t3 = t3
  Thread <- MCThread
  FirstThread = t1
  Endpoint = {1}
  ProcessOf <- MCProcessOf
INVARIANTS
  ServingIsWired
  StopsOnlyForCause
  NeverSpins

  
  
CHECK_DEADLOCK FALSE
