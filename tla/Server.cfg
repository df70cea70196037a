CONSTANTS
  t1 = t1
  t2 = t2
  c1 = c1
  c2 = c2
  c3 = c3
  Threads <- MCThreads
  Connections <- MCConnections
  MaxFiles = 2
  Loop = Loop
  Idle = Idle
SPECIFICATION FairSpec
INVARIANTS
  TypeOK
  ActiveExact
  OneThreadAtWork
  OneLateConnection
  ReturnLeavesNothing
PROPERTIES
  ShutDownReturns
  BacklogServed
CHECK_DEADLOCK FALSE
