CONSTANTS
  c1 = c1
  c2 = c2
  w1 = w1
  w2 = w2
  p1 = p1
  pool = pool
  poller = poller
  Clients <- MCClients
  Workers <- MCWorkers
  Executors <- MCExecutors
  ExecutorOf <- MCExecutorOf
  Catches <- MCCatches
  MayCall <- MCMayCall
  MaxCalls = 4
SPECIFICATION Spec
INVARIANTS
  FrameOutlivesJob
PROPERTIES
  SyncReturns
