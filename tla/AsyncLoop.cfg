SPECIFICATION FairSpec
CONSTANTS
  Async = 2
  MaxFd = 3
  MaxWait = 2
  MaxChunks = 1
  MaxSignals = 1
  SocketTimeout = TRUE
  Routes = FALSE
INVARIANTS CoresSound
PROPERTIES LoopServes
