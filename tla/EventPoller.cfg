CONSTANTS
  owner = owner
  other = other
  j1 = j1
  j2 = j2
  j3 = j3
  jExit = jExit
  none = none
  Clients <- MCClients
  Owner <- owner
  Tasks <- MCTasks
  ExitJob <- jExit
  NoTask <- none
  Nested <- OneNested
  PipeCap = 4
  ReadSize = 2
  ReadErrors = TRUE
SPECIFICATION Spec
INVARIANTS
  NoLostWakeup
  InOrder
  DrainedAtExit
  PipeOutlivesUsers
PROPERTIES
  IsTaskExecutor
  PostedIsBegun
  DestructorReturns
