CONSTANTS
  t1 = t1
  t2 = t2
  c1 = c1
  c2 = c2
  c3 = c3
  NoThread = NoThread
  NoClient = NoClient
  Threads <- TwoThreads
  Clients <- ThreeClients
SPECIFICATION FairSpec
INVARIANTS
  TypeOK
  Exclusive
  NoneLost
  LentIsLive
  WithinPeakDemand
  LateCallsFail
  AbortMeansStopped
PROPERTIES
  LendsExclusively
  UsesPool
  StopEndsRequests
  TimeoutEndsRequests
  GivenBack
  SomeoneEnters
