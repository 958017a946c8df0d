CONSTANTS
  t1 = t1
  t2 = t2
  t3 = t3
  t4 = t4
  Threads <- MCThreads
  PostSizes <- MCPostSizes
  MaxPermits = 4
SPECIFICATION SemSpec
INVARIANTS NoStrandedPermit
PROPERTIES IsCountingSemaphore
