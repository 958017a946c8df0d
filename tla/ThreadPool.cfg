CONSTANTS
  w1 = w1
  w2 = w2
  c1 = c1
  c2 = c2
  j1 = j1
  j2 = j2
  j3 = j3
  none = none
  Workers <- MCWorkers
  Clients <- MCClients
  Tasks <- MCTasks
  NoTask <- none
  Nested <- OneNested
SPECIFICATION Spec
INVARIANTS
  PermitPerJob
PROPERTIES
  IsTaskExecutor
  QueueDrains
  DestructorReturns
