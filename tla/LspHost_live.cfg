\* One client; rust-analyzer may never answer, and may die, but it reads its stdin.
CONSTANTS
  c1 = c1
  c2 = c2
  Clients = {c1}
  Initializer = Initializer
  Stopper = Stopper
  MaxId = 3
  WriterCap = 1
  ServerCap = 1
  PipeCap = 1
  ServerIds = {2}
SPECIFICATION FairSpec
PROPERTIES RequestReturns ShutdownEnds ImplementsRemoteCall
CHECK_DEADLOCK FALSE
